---- MODULE Spec2Model ----
(***************************************************************************)
(* Model of the gabagool navigation router (pkg/gabagool/router): the      *)
(* screen registry, the navigation stack and the Run loop, driven by the   *)
(* screens and transition functions of router/example_test.go and by       *)
(* arbitrary ("generic") screens and transition functions.                 *)
(***************************************************************************)
EXTENDS Integers, Sequences, FiniteSets, TLC

\* ------------------------------------------------------------------ bounds
MaxCalls == 3   \* Screen Unit invocations modelled per Run
MaxDepth == 2   \* stack depth reached by transition functions
MaxOps   == 6   \* stack operations recorded in the StackSpec history
MaxRegs  == 3   \* Register calls recorded in the RegistrySpec history
MaxOther == 2   \* Screen Unit invocations modelled for a second, concurrent Run

\* ------------------------------------------------------- screen identifiers
ScreenExit       == -1
ScreenGameList   == 0
ScreenGameDetail == 1

Screens == {ScreenExit, ScreenGameList, ScreenGameDetail}

\* ----------------------------------------------------------------- payloads
\* Every payload (type "any" in the source) is a record tagged with its
\* dynamic type, so that a type assertion can succeed or panic.
NilP == [type |-> "nil"]

GameListResume(idx, scroll) ==
    [type |-> "GameListResume", SelectedIndex |-> idx, ScrollPosition |-> scroll]

GameListInput(resume) == [type |-> "GameListInput", Resume |-> resume]

GameDetailInput(game) == [type |-> "GameDetailInput", Game |-> game]

GameListResult(action, selected, resume) ==
    [type |-> "GameListResult", Action |-> action, Selected |-> selected,
     Resume |-> resume]

GameDetailResult(action) == [type |-> "GameDetailResult", Action |-> action]

R0 == GameListResume(2, 100)   \* resume of the list screen's first visit
R1 == GameListResume(0, 0)     \* a resume returned by a generic screen

\* Inputs handed to Run by the embedding application.
StartInputs == {GameListInput(NilP), GameDetailInput("Half-Life")}

\* The input a generic transition function stores in the frame of the
\* screen it leaves: a fresh input of that screen, as the example does.
FrameInput(from) ==
    IF from = ScreenGameList THEN GameListInput(NilP)
    ELSE GameDetailInput("Half-Life")

\* Inputs a generic transition function returns for forward navigation.
ForwardInputs == {GameDetailInput("Half-Life"), GameListInput(NilP), NilP}

\* A result that reports a failure of the screen's own domain.
DomainFailure == GameDetailResult("Failed")

\* Results a generic screen returns with a nil error.
GenericResults ==
    {GameListResult("Selected", "Half-Life", R1),
     GameListResult("Back", "nil", NilP),
     GameDetailResult("Back"),
     DomainFailure,
     NilP}

\* Infrastructure errors a generic screen returns.
ScreenErrs == {"io", "render"}

\* ------------------------------------------------------------------- errors
NotReturned == [kind |-> "none"]
NoErr == [kind |-> "nil"]
ErrNoTransition == [kind |-> "noTransition"]
ErrNotRegistered(screen) == [kind |-> "notRegistered", screen |-> screen]
\* Mutant: the screen's error is formatted into the message, not wrapped.
ErrScreen_Unwrapped(screen, e) ==
    [kind |-> "screenError", screen |-> screen, wraps |-> "nil"]

ErrScreen(screen, e) ==
    [kind |-> "screenError", screen |-> screen, wraps |-> e]

\* -------------------------------------------------------------------- stack
StackEntry(screen, input, resume) ==
    [Screen |-> screen, Input |-> input, Resume |-> resume]

NoEntry == [nil |-> TRUE]

NewStack == << >>

\* Mutant: the pushed frame loses its resume state.
Push_DropsResume(entries, screen, input, resume) ==
    Append(entries, StackEntry(screen, input, NilP))

\* Mutant: a push of the screen that is already on top replaces the top
\* entry.
Push_Collapses(entries, screen, input, resume) ==
    IF Len(entries) > 0 /\ entries[Len(entries)].Screen = screen
    THEN [entries EXCEPT ![Len(entries)] = StackEntry(screen, input, resume)]
    ELSE Append(entries, StackEntry(screen, input, resume))

Push(entries, screen, input, resume) ==
    Append(entries, StackEntry(screen, input, resume))

\* Mutant: Pop returns the top entry but leaves it on the stack.
Pop_NoShrink(entries) ==
    IF Len(entries) = 0
    THEN [entry |-> NoEntry, entries |-> entries]
    ELSE [entry |-> entries[Len(entries)], entries |-> entries]

\* Mutant: Pop takes the oldest entry instead of the newest.
Pop_Fifo(entries) ==
    IF Len(entries) = 0
    THEN [entry |-> NoEntry, entries |-> entries]
    ELSE [entry |-> entries[1], entries |-> SubSeq(entries, 2, Len(entries))]

\* Mutant: Pop indexes the last entry without testing for an empty stack,
\* which panics with an index out of range.
Pop_NoEmptyCheck(entries) ==
    IF Len(entries) = 0
    THEN [entry |-> [panic |-> "index out of range"], entries |-> entries]
    ELSE [entry |-> entries[Len(entries)],
          entries |-> SubSeq(entries, 1, Len(entries) - 1)]

Pop(entries) ==
    IF Len(entries) = 0
    THEN [entry |-> NoEntry, entries |-> entries]
    ELSE [entry |-> entries[Len(entries)],
          entries |-> SubSeq(entries, 1, Len(entries) - 1)]

\* Mutant: Peek returns the oldest entry.
Peek_Bottom(entries) ==
    IF Len(entries) = 0 THEN NoEntry ELSE entries[1]

\* The entry the pointer returned by Peek refers to.
Peek(entries) ==
    IF Len(entries) = 0 THEN NoEntry ELSE entries[Len(entries)]

IsEmpty(entries) == Len(entries) = 0

StackLen(entries) == Len(entries)

Clear(entries) == SubSeq(entries, 1, 0)

\* ------------------------------------------------------- directional input
\* internal/directional.go.  Times are in milliseconds; the clock advances in
\* steps of Tick, up to MaxTicks steps.
Tick == 50
MaxTicks == 6

\* keyboard.go:169, NewDirectionalInputWithTiming(150ms, 50ms), and
\* keyboard.go:167, InputDelay.
KeyboardRepeatDelay == 150
KeyboardRepeatInterval == 50
KeyboardInputDelay == 100

DirectionNone == "none"
Directions == <<"up", "down", "left", "right">>
Directional == {"up", "down", "left", "right"}
\* directional.go:44-50.  t is time.Now() at construction.
NewDirectionalInputWithTiming(delay, interval, t) ==
    [up |-> FALSE, down |-> FALSE, left |-> FALSE, right |-> FALSE,
     lastRepeatTime |-> t, repeatDelay |-> delay,
     repeatInterval |-> interval, hasRepeated |-> FALSE]

\* Mutant: a release leaves hasRepeated as it is.
SetHeld_KeepsHasRepeated(d, button, held) ==
    IF button \in Directional
    THEN [d |-> [d EXCEPT ![button] = held], ok |-> TRUE]
    ELSE [d |-> d, ok |-> FALSE]

\* directional.go:54-82.  d is the handler after the call, ok what SetHeld
\* returns.
SetHeld(d, button, held) ==
    IF button \in Directional
    THEN [d |-> [d EXCEPT ![button] = held,
                          !.hasRepeated = IF held THEN @ ELSE FALSE],
          ok |-> TRUE]
    ELSE [d |-> d, ok |-> FALSE]

\* directional.go:85-87.
IsHeld(d) == d.up \/ d.down \/ d.left \/ d.right

\* Mutant: the checks run right, left, down, up.
HeldDirection_RightFirst(d) ==
    IF d.right THEN "right"
    ELSE IF d.left THEN "left"
    ELSE IF d.down THEN "down"
    ELSE IF d.up THEN "up"
    ELSE DirectionNone

\* directional.go:92-106.
HeldDirection(d) ==
    IF d.up THEN "up"
    ELSE IF d.down THEN "down"
    ELSE IF d.left THEN "left"
    ELSE IF d.right THEN "right"
    ELSE DirectionNone

\* directional.go:113-135 at time t.  d is the handler after the call, dir
\* the direction Update returns.
Update(d, t) ==
    IF ~IsHeld(d)
    THEN [d |-> [d EXCEPT !.lastRepeatTime = t, !.hasRepeated = FALSE],
          dir |-> DirectionNone]
    ELSE IF t - d.lastRepeatTime
                >= (IF d.hasRepeated THEN d.repeatInterval ELSE d.repeatDelay)
    THEN [d |-> [d EXCEPT !.lastRepeatTime = t, !.hasRepeated = TRUE],
          dir |-> HeldDirection(d)]
    ELSE [d |-> d, dir |-> DirectionNone]

\* The handler a keyboard creates at time 0 (keyboard.go:169).
InitialDir ==
    NewDirectionalInputWithTiming(KeyboardRepeatDelay, KeyboardRepeatInterval,
                                  0)

\* The directions marked held in d, read field by field.
RawHeld(d) == {x \in Directional : d[x]}

\* What the observer of the DirectionalInput knows before any call.
\* since: when the hold going on now began (-1: nothing held); solo: the hold
\* is one press of one button with no other SetHeld call since; fire: time of
\* the last repeat of this hold (-1: none); last: time of the last repeat
\* returned since Update last found nothing held (-1: none); partial: a
\* release left another direction held and neither a SetHeld call nor a
\* repeat followed; afterRelease: the hold began right after the release of
\* the only held direction, with no Update in between; call, button, held,
\* at: the last call, its arguments and its time; out, ok: what it returned;
\* pdir, pfire, plast, ppartial: the handler and the observations before it.
NothingObserved ==
    [since |-> -1, solo |-> FALSE, fire |-> -1, last |-> -1,
     partial |-> FALSE, afterRelease |-> FALSE,
     call |-> "none", button |-> "none", held |-> FALSE, at |-> 0,
     out |-> DirectionNone, ok |-> TRUE,
     pdir |-> InitialDir, pfire |-> -1, plast |-> -1, ppartial |-> FALSE]

\* The last call released the only direction that was held.
ReleasedOnly(o) ==
    o.call = "set" /\ ~o.held /\ RawHeld(o.pdir) = {o.button}

\* The observer after SetHeld(button, held) at time t on handler d.
ObserveSetHeld(o, d, button, held, t, ok) ==
    LET before == RawHeld(d)
        after == before \ {button}
        c == [o EXCEPT !.call = "set", !.button = button, !.held = held,
                       !.at = t, !.ok = ok, !.out = DirectionNone,
                       !.pdir = d, !.pfire = o.fire, !.plast = o.last,
                       !.ppartial = o.partial]
    IN  IF button \notin Directional THEN c
        ELSE IF held
        THEN [c EXCEPT
                !.since = IF before = {} THEN t ELSE @,
                !.solo = IF before = {} THEN TRUE
                         ELSE o.solo /\ before = {button},
                !.fire = IF before = {} THEN -1 ELSE @,
                !.afterRelease = IF before = {} THEN ReleasedOnly(o) ELSE @,
                !.partial = FALSE]
        ELSE [c EXCEPT
                !.since = IF after = {} THEN -1 ELSE @,
                !.solo = FALSE,
                !.fire = IF after = {} THEN -1 ELSE @,
                !.afterRelease = FALSE,
                !.partial = after # {}]

\* The observer after an Update at time t on handler d that returned out.
ObserveUpdate(o, d, t, out) ==
    [o EXCEPT !.call = "update", !.button = "none", !.held = FALSE,
              !.at = t, !.ok = TRUE, !.out = out,
              !.pdir = d, !.pfire = o.fire, !.plast = o.last,
              !.ppartial = o.partial,
              !.fire = IF out # DirectionNone THEN t ELSE @,
              !.last = IF out # DirectionNone THEN t
                       ELSE IF RawHeld(d) = {} THEN -1 ELSE @,
              !.partial = IF out # DirectionNone THEN FALSE ELSE @]

\* ----------------------------------------------- detail screen scrolling
\* detail.go.  go.mod:151 (the constants file), DefaultInputDelay.
DefaultInputDelay == 20
\* detail.go:228-231.
DetailRepeatDelay == 150
DetailRepeatInterval == 50
DirectionTimeout == 200

\* The zero time.Time of a field that was never assigned: earlier than any
\* time.Now() by more than every delay.
ZeroTime == -1000

\* detail.go:213-232 at time t; lastRepeatTime and lastDirectionPressTime
\* are not in the literal.  scrollSpeed is 85 (detail.go:220); maxScrollY
\* (detail.go:1053) is that of a content three scroll steps higher than the
\* screen.
initializeDetailScreenState(t) ==
    [up |-> FALSE, down |-> FALSE, targetScrollY |-> 0,
     maxScrollY |-> 255, scrollSpeed |-> 85,
     lastInputTime |-> t, inputDelay |-> DefaultInputDelay,
     lastRepeatTime |-> ZeroTime, lastDirectionPressTime |-> ZeroTime,
     repeatDelay |-> DetailRepeatDelay,
     repeatInterval |-> DetailRepeatInterval,
     directionTimeout |-> DirectionTimeout]

\* detail.go:531-533.
isInputAllowed(s, t) == t - s.lastInputTime >= s.inputDelay

\* One scroll step, detail.go:539 and 543 (also 592 and 596).
ScrollStep(s, up) ==
    IF up
    THEN IF s.targetScrollY - s.scrollSpeed < 0 THEN 0
         ELSE s.targetScrollY - s.scrollSpeed
    ELSE IF s.targetScrollY + s.scrollSpeed > s.maxScrollY THEN s.maxScrollY
         ELSE s.targetScrollY + s.scrollSpeed

\* detail.go:535-547.
startScrolling(s, up, t) ==
    [s EXCEPT !.up = up, !.down = ~up, !.targetScrollY = ScrollStep(s, up),
              !.lastRepeatTime = t, !.lastDirectionPressTime = t]

\* detail.go:409-432 with no dropdown expanded, for the buttons that leave
\* the result alone.
DetailHandleInputEvent(s, button, t) ==
    IF ~isInputAllowed(s, t) THEN s
    ELSE LET a == [s EXCEPT !.lastInputTime = t]
         IN  IF button = "up" THEN startScrolling(a, TRUE, t)
             ELSE IF button = "down" THEN startScrolling(a, FALSE, t)
             ELSE a

\* detail.go:522-529.
DetailHandleInputEventRelease(s, button) ==
    IF button = "up" THEN [s EXCEPT !.up = FALSE]
    ELSE IF button = "down" THEN [s EXCEPT !.down = FALSE]
    ELSE s

\* detail.go:572-600 at time t.  s is the state after the call, scrolled
\* whether it made a scroll step.
DetailHandleDirectionalRepeats(s, t) ==
    LET timeSinceLastRepeat == t - s.lastRepeatTime
    IN  IF t - s.lastDirectionPressTime > s.directionTimeout
        THEN [s |-> [s EXCEPT !.up = FALSE, !.down = FALSE],
              scrolled |-> FALSE]
        ELSE IF timeSinceLastRepeat < s.repeatDelay
        THEN [s |-> s, scrolled |-> FALSE]
        ELSE IF s.repeatInterval > 0
                    /\ timeSinceLastRepeat < s.repeatInterval
        THEN [s |-> s, scrolled |-> FALSE]
        ELSE IF s.up \/ s.down
        THEN [s |-> [s EXCEPT !.targetScrollY = ScrollStep(s, s.up),
                              !.lastRepeatTime = t,
                              !.lastDirectionPressTime = t],
              scrolled |-> TRUE]
        ELSE [s |-> s, scrolled |-> FALSE]

\* What the observer of the detail screen knows before any event.  phys: the
\* buttons that are down; hold: the one of Up and Down that is down alone
\* and whose press the screen handled, "none" otherwise; base: time of that
\* press or of the last scroll repeat of the hold; repeated: the hold has
\* repeated; call, at: the last step and its time; scrolled: it made a
\* scroll step; phold, pbase, prepeated: the observations before it.
DetailUnobserved ==
    [phys |-> {}, hold |-> "none", base |-> 0, repeated |-> FALSE,
     call |-> "none", at |-> 0, scrolled |-> FALSE,
     phold |-> "none", pbase |-> 0, prepeated |-> FALSE]

\* ------------------------------------------------------ virtual keyboard
\* keyboard.go.  A text is a sequence of characters; Width is the number of
\* bytes of a character in UTF-8, so that len(string) and len([]rune(string))
\* are told apart.
MaxText == 3
MaxCacheSize == 2
MaxCacheOps == 5
MaxItems == 3
MaxVisible == 3
MaxOptions == 3

\* keyboard.go:272, the symbols on the letter keys, among them the euro sign
\* (3 bytes) and the pound sign (2 bytes); keyboard.go:302, a shortcut of
\* several characters.
Width(c) == IF c = "euro" THEN 3 ELSE IF c = "pound" THEN 2 ELSE 1
KeyValues == {<<"a">>, <<"euro">>, <<".", "i", "o">>}
InitialTexts == {<< >>, <<"a">>, <<"pound">>}

\* len(s) of Go for a string s: its length in bytes.  len([]rune(s)) is
\* Len of the sequence.
RECURSIVE ByteLen(_)
ByteLen(text) ==
    IF text = << >> THEN 0
    ELSE Width(Head(text)) + ByteLen(Tail(text))

\* The lengths of the rows of keys the selection moves in (keyboard.go:134,
\* keyLayout.rows), here two rows of three and two keys.
KbRowLengths == <<3, 2>>

\* keyboard.go:153-170 at time t, with keyboard.go:169 creating the
\* directional input.  stage tells where Keyboard (keyboard.go:714-745) is:
\* created, running its loop, or ended by a panic.  ShiftPressed and
\* SymbolPressed are not in the literal and start as false.
createKeyboard(t) ==
    [stage |-> "created", TextBuffer |-> << >>, CursorPosition |-> 0,
     ShowingHelp |-> FALSE, InputDelay |-> KeyboardInputDelay,
     lastInputTime |-> t, row |-> 0, col |-> 0,
     CurrentState |-> "lowerCase", ShiftPressed |-> FALSE,
     SymbolPressed |-> FALSE]

\* Mutant: shift selects the case in symbols mode too.
toggleShift_LeavesSymbols(k) ==
    [k EXCEPT !.ShiftPressed = ~@,
              !.CurrentState = IF ~k.ShiftPressed THEN "upperCase"
                               ELSE "lowerCase"]

\* keyboard.go:1078-1091.
toggleShift(k) ==
    IF k.CurrentState = "symbolsMode"
    THEN [k EXCEPT !.ShiftPressed = ~@]
    ELSE [k EXCEPT !.ShiftPressed = ~@,
                   !.CurrentState = IF ~k.ShiftPressed THEN "upperCase"
                                    ELSE "lowerCase"]

\* keyboard.go:1093-1104.
toggleSymbols(k) ==
    [k EXCEPT !.SymbolPressed = ~@,
              !.CurrentState = IF ~k.SymbolPressed THEN "symbolsMode"
                               ELSE IF k.ShiftPressed THEN "upperCase"
                               ELSE "lowerCase"]

\* keyboard.go:725-729.
Keyboard(k, initialText) ==
    IF initialText # << >>
    THEN [k EXCEPT !.stage = "running", !.TextBuffer = initialText,
                   !.CursorPosition = ByteLen(initialText)]
    ELSE [k EXCEPT !.stage = "running"]

\* keyboard.go:1037-1047.  With the cursor beyond the last rune,
\* textRunes[kb.CursorPosition:] is out of range: the goroutine panics and
\* Keyboard never returns.
insertText(k, text) ==
    IF k.CursorPosition = ByteLen(k.TextBuffer)
    THEN [k EXCEPT !.TextBuffer = @ \o text,
                   !.CursorPosition = @ + Len(text)]
    ELSE IF k.CursorPosition > Len(k.TextBuffer) THEN [k EXCEPT !.stage = "panicked"]
    ELSE [k EXCEPT
            !.TextBuffer = SubSeq(@, 1, k.CursorPosition) \o text
                             \o SubSeq(@, k.CursorPosition + 1, Len(@)),
            !.CursorPosition = @ + Len(text)]

\* keyboard.go:1064-1072.
backspace(k) ==
    IF k.CursorPosition > 0
    THEN IF k.CursorPosition > Len(k.TextBuffer) THEN [k EXCEPT !.stage = "panicked"]
         ELSE [k EXCEPT
                 !.TextBuffer = SubSeq(@, 1, k.CursorPosition - 1)
                                  \o SubSeq(@, k.CursorPosition + 1, Len(@)),
                 !.CursorPosition = @ - 1]
    ELSE k

\* keyboard.go:1106-1115.
moveCursor(k, direction) ==
    IF direction > 0 /\ k.CursorPosition < ByteLen(k.TextBuffer)
    THEN [k EXCEPT !.CursorPosition = @ + 1]
    ELSE IF direction < 0 /\ k.CursorPosition > 0
    THEN [k EXCEPT !.CursorPosition = @ - 1]
    ELSE k

\* keyboard.go:916-933 with moveUp, moveDown, moveLeft and moveRight
\* (keyboard.go:960-996), on rows and columns numbered from 0.
navigate(k, button) ==
    LET rows == Len(KbRowLengths)
        newRow == IF button = "up"
                  THEN IF k.row - 1 < 0 THEN rows - 1 ELSE k.row - 1
                  ELSE IF button = "down"
                  THEN IF k.row + 1 >= rows THEN 0 ELSE k.row + 1
                  ELSE k.row
        len == KbRowLengths[newRow + 1]
        newCol == IF button = "left"
                  THEN IF k.col - 1 < 0 THEN len - 1 ELSE k.col - 1
                  ELSE IF button = "right"
                  THEN IF k.col + 1 >= len THEN 0 ELSE k.col + 1
                  ELSE IF k.col >= len THEN len - 1 ELSE k.col
    IN  [k EXCEPT !.row = newRow, !.col = newCol]

\* keyboard.go:1130-1136.
toggleHelp(k) == [k EXCEPT !.ShowingHelp = ~@]

\* keyboard.go:892-904; the scroll position of the overlay is not kept.
handleHelpInputEvent(k, button) ==
    IF button \in {"up", "down"} THEN k
    ELSE [k EXCEPT !.ShowingHelp = FALSE]

\* keyboard.go:823-886 at time t, for the buttons that do not end the
\* loop; key is the value of the selected key (keyboard.go:1013-1035).  k is
\* the keyboard and d its directional input after the call.
KbHandleInputEvent(k, d, button, key, t) ==
    IF button \in Directional /\ t - k.lastInputTime < k.InputDelay
    THEN [k |-> k, d |-> d]
    ELSE
      LET k1 == IF button \in Directional
                THEN [k EXCEPT !.lastInputTime = t] ELSE k
      IN  IF button = "menu" THEN [k |-> toggleHelp(k1), d |-> d]
          ELSE IF k1.ShowingHelp
          THEN [k |-> handleHelpInputEvent(k1, button), d |-> d]
          ELSE IF button \in Directional
          THEN [k |-> navigate(k1, button),
                d |-> SetHeld(d, button, TRUE).d]
          ELSE IF button = "a" THEN [k |-> insertText(k1, key), d |-> d]
          ELSE IF button = "b" THEN [k |-> backspace(k1), d |-> d]
          ELSE IF button = "x" THEN [k |-> insertText(k1, <<" ">>), d |-> d]
          ELSE IF button = "l1" THEN [k |-> moveCursor(k1, -1), d |-> d]
          ELSE IF button = "r1" THEN [k |-> moveCursor(k1, 1), d |-> d]
          ELSE [k |-> k1, d |-> d]

\* keyboard.go:910-914 at time t.
KbHandleDirectionalRepeats(k, d, t) ==
    LET u == Update(d, t)
    IN  [k |-> IF u.dir # DirectionNone THEN navigate(k, u.dir) ELSE k,
         d |-> u.d, navigated |-> u.dir # DirectionNone]

\* What the observer of the keyboard knows before any event.  phys: the
\* buttons that are down; downSince: since when a directional button has
\* been down without a break (-1: none is); lastNav: time of the last
\* navigation step (-1: none); call, at: the last step and its time;
\* navigated: it made a navigation step; plastNav: lastNav before it.
KeyboardUnobserved ==
    [phys |-> {}, downSince |-> -1, lastNav |-> -1, call |-> "none",
     at |-> 0, navigated |-> FALSE, plastNav |-> -1]

\* -------------------------------------------------------- texture cache
\* A texture is named by a number; NilTexture is the nil pointer.  The field
\* destroyed is the set of textures on which Destroy has been called.
NilTexture == 0

CacheKeys == 1..(MaxCacheSize + 1)

NoTextureCache ==
    [made |-> FALSE, textures |-> << >>, order |-> << >>, maxSize |-> 0,
     destroyed |-> {}]

NewTextureCacheWithSize(maxSize) ==
    [made |-> TRUE, textures |-> << >>, order |-> << >>, maxSize |-> maxSize,
     destroyed |-> {}]

RemoveAt(seq, i) == SubSeq(seq, 1, i - 1) \o SubSeq(seq, i + 1, Len(seq))

moveToEnd_Stays(c, key) == c

moveToEnd(c, key) ==
    IF \E i \in 1..Len(c.order) : c.order[i] = key
    THEN LET i == CHOOSE j \in 1..Len(c.order) :
                      /\ c.order[j] = key
                      /\ \A l \in 1..(j - 1) : c.order[l] # key
         IN [c EXCEPT !.order = Append(RemoveAt(c.order, i), key)]
    ELSE c

evictOldest_KeepsAll(c) == c

evictOldest(c) ==
    IF Len(c.order) = 0 THEN c
    ELSE LET oldest == c.order[1]
             rest   == [c EXCEPT !.order = Tail(c.order)]
         IN IF oldest \in DOMAIN c.textures
            THEN [rest EXCEPT
                    !.destroyed = @ \cup {c.textures[oldest]},
                    !.textures = [k \in (DOMAIN c.textures) \ {oldest}
                                    |-> c.textures[k]]]
            ELSE rest

\* Get: the cache after the call and the texture returned.
TextureCacheGet(c, key) ==
    IF key \in DOMAIN c.textures
    THEN [c |-> moveToEnd(c, key), texture |-> c.textures[key]]
    ELSE [c |-> c, texture |-> NilTexture]

TextureCacheSet(c, key, texture) ==
    IF key \in DOMAIN c.textures
    THEN moveToEnd([c EXCEPT !.textures[key] = texture], key)
    ELSE LET e == IF Len(c.order) >= c.maxSize THEN evictOldest(c) ELSE c
         IN [e EXCEPT
               !.textures = [k \in (DOMAIN e.textures) \cup {key} |->
                               IF k = key THEN texture ELSE e.textures[k]],
               !.order = Append(e.order, key)]

TextureCacheDestroy(c) ==
    [c EXCEPT
       !.destroyed = @ \cup {c.textures[k] : k \in DOMAIN c.textures},
       !.textures = << >>,
       !.order = << >>]

\* ----------------------------------------------------------- option list
\* The items are numbered from 0 as in the code.  Of an ItemWithOptions the
\* model keeps Item.Selected and the value its IsVisible returns.
NumItems(items) == Cardinality(DOMAIN items)

ItemLists ==
    UNION {[0..(n - 1) -> [Selected : BOOLEAN, Visible : BOOLEAN]] :
             n \in 0..MaxItems}

IsVisible(item) == item.Visible

NoOptionsList ==
    [stage |-> "none", Items |-> << >>, SelectedIndex |-> 0,
     VisibleStartIndex |-> 0, MaxVisibleItems |-> 0]

NothingMoved ==
    [moved |-> FALSE, direction |-> 0, startIndex |-> 0, steps |-> 0]

FirstIndex(set) == CHOOSE i \in set : \A j \in set : i <= j

newOptionsListController(items) ==
    LET marked   == {i \in DOMAIN items : items[i].Selected}
        first    == IF marked = {} THEN 0 ELSE FirstIndex(marked)
        visible  == {i \in DOMAIN items : IsVisible(items[i])}
        selectedIndex ==
            IF NumItems(items) > 0 /\ ~IsVisible(items[first])
            THEN IF visible = {} THEN first ELSE FirstIndex(visible)
            ELSE first
    IN [stage |-> "running",
        Items |-> [i \in DOMAIN items |->
                     [items[i] EXCEPT !.Selected = (i = selectedIndex)]],
        SelectedIndex |-> selectedIndex,
        VisibleStartIndex |-> 0,
        MaxVisibleItems |-> 0]

\* availableHeight is the screen height less title, footer and StartY; the
\* scale factor is 1, so itemSpacing is 60.
calculateMaxVisibleItems(availableHeight) ==
    LET maxItems == availableHeight \div 60
    IN IF maxItems < 1 THEN 1 ELSE maxItems

scrollTo(o, index) ==
    IF index < 0 \/ index >= NumItems(o.Items) THEN o
    ELSE LET quarter      == o.MaxVisibleItems \div 4
             contextItems == IF quarter < 1 THEN 1 ELSE quarter
             wanted       == index - contextItems
             lowered      == IF wanted < 0 THEN 0 ELSE wanted
             room         == NumItems(o.Items) - o.MaxVisibleItems
             maxStart     == IF room < 0 THEN 0 ELSE room
             newStart     == IF lowered > maxStart THEN maxStart ELSE lowered
         IN [o EXCEPT !.VisibleStartIndex = newStart]

\* One step of the search, without the test for a visible item.
findNext_NoSkip(o, direction, startIndex, steps) ==
    LET n == NumItems(o.Items)
    IN [o |-> [o EXCEPT !.SelectedIndex =
                 IF direction > 0 THEN (@ + 1) % n ELSE (@ + n - 1) % n],
        steps |-> steps + 1]

\* The search loop of moveSelection: the controller when the loop is left and
\* the number of times its body ran.  The loop is followed for at most
\* len(Items) + 1 rounds, so that a search running on is a value.
RECURSIVE findNext(_, _, _, _)
findNext(o, direction, startIndex, steps) ==
    LET n == NumItems(o.Items)
        moved ==
            IF direction > 0
            THEN IF o.SelectedIndex + 1 >= n
                 THEN [o EXCEPT !.SelectedIndex = 0, !.VisibleStartIndex = 0]
                 ELSE [o EXCEPT !.SelectedIndex = @ + 1]
            ELSE IF o.SelectedIndex - 1 < 0
                 THEN [o EXCEPT
                         !.SelectedIndex = n - 1,
                         !.VisibleStartIndex =
                             IF n > o.MaxVisibleItems
                             THEN n - o.MaxVisibleItems ELSE 0]
                 ELSE [o EXCEPT !.SelectedIndex = @ - 1]
    IN IF \/ IsVisible(moved.Items[moved.SelectedIndex])
          \/ moved.SelectedIndex = startIndex
          \/ steps >= n
       THEN [o |-> moved, steps |-> steps + 1]
       ELSE findNext(moved, direction, startIndex, steps + 1)

moveSelection_KeepsOld(o, direction) ==
    IF NumItems(o.Items) = 0 THEN [o |-> o, steps |-> 0]
    ELSE LET f == findNext(o, direction, o.SelectedIndex, 0)
             marked == [f.o EXCEPT !.Items[f.o.SelectedIndex].Selected = TRUE]
         IN [o |-> scrollTo(marked, marked.SelectedIndex), steps |-> f.steps]

moveSelection(o, direction) ==
    IF NumItems(o.Items) = 0 THEN [o |-> o, steps |-> 0]
    ELSE LET startIndex == o.SelectedIndex
             left   == [o EXCEPT !.Items[startIndex].Selected = FALSE]
             f      == findNext(left, direction, startIndex, 0)
             marked == [f.o EXCEPT !.Items[f.o.SelectedIndex].Selected = TRUE]
         IN [o |-> scrollTo(marked, marked.SelectedIndex), steps |-> f.steps]

\* The items render draws: from VisibleStartIndex on, the visible ones, until
\* MaxVisibleItems rows are filled.
RenderedRows(o) ==
    {i \in DOMAIN o.Items :
        /\ i >= o.VisibleStartIndex
        /\ IsVisible(o.Items[i])
        /\ Cardinality({j \in o.VisibleStartIndex..(i - 1) :
                           IsVisible(o.Items[j])}) < o.MaxVisibleItems}

\* ------------------------------------------------------ selection message
\* The options are the sequence of their Values; the code counts them from 0,
\* so option i of the code is options[i + 1] here.  InitialSelection is the
\* setting the call was made with, and rendered tells that a frame was drawn.
OptionValues == {"a", "b"}

OptionLists == UNION {[1..n -> OptionValues] : n \in 0..MaxOptions}

NoSelectionResult == [SelectedIndex |-> -1, SelectedValue |-> "nil"]

NoSelectionMessage ==
    [stage |-> "none", options |-> << >>, selectedIndex |-> 0,
     disableBack |-> FALSE, confirmed |-> FALSE, cancelled |-> FALSE,
     InitialSelection |-> 0, rendered |-> FALSE, result |-> NoSelectionResult, err |-> "nil"]

navigateLeft(c) ==
    IF c.selectedIndex - 1 < 0
    THEN [c EXCEPT !.selectedIndex = Len(c.options) - 1]
    ELSE [c EXCEPT !.selectedIndex = @ - 1]

navigateRight_NoWrap(c) == [c EXCEPT !.selectedIndex = @ + 1]

navigateRight(c) ==
    IF c.selectedIndex + 1 >= Len(c.options)
    THEN [c EXCEPT !.selectedIndex = 0]
    ELSE [c EXCEPT !.selectedIndex = @ + 1]

\* What SelectionMessage returns once handleEvents has ended the loop.
SelectionReturn(c) ==
    IF c.cancelled
    THEN [c EXCEPT !.stage = "returned", !.err = "ErrCancelled"]
    ELSE IF c.selectedIndex < 0 \/ c.selectedIndex >= Len(c.options)
    THEN [c EXCEPT !.stage = "panicked"]
    ELSE [c EXCEPT
            !.stage = "returned",
            !.result = [SelectedIndex |-> c.selectedIndex,
                        SelectedValue |-> c.options[c.selectedIndex + 1]]]

\* ------------------------------------------------------------ program state
VARIABLES
    screens,       \* Router.screens: registered identifier -> Screen Unit
    transition,    \* Router.transition: "nil" or the installed function
    stack,         \* Router.stack.entries
    pc,            \* position of Run: idle, screen, trans, returned, panicked
    current,       \* Run: current
    currentInput,  \* Run: currentInput
    fn,            \* Run: fn, the unit found by the lookup
    result,        \* Run: result of the last Screen Unit
    err,           \* Run: err of the last Screen Unit
    next,          \* Run: next, as returned by the transition function
    nextInput,     \* Run: nextInput, as returned by the transition function
    ret,           \* value returned by the last Run call
    targs,         \* parameters (from, result) of the running transition call
    entry,         \* transition function local: the entry obtained from Pop
    visits,        \* example_test.go: counter captured by the list screen
    printed,       \* example_test.go: values printed by "Returned: ..."
    active,        \* Screen Units executing now (test counter of the spec)
    lookups,       \* registry lookups made by the current Run
    calls,         \* Screen Unit invocations of the current Run
    tcalls,        \* transition function invocations of the current Run
    track,         \* observer following one pushed frame until it is resumed
    hist,          \* the calls made so far, in the specifications that
                   \* record them (StackSpec, RegistrySpec, PeekSpec)
    peeked,        \* caller: slot the pointer returned by Peek refers to, 0
                   \* when the caller holds none
    other,         \* a second Run call on the same Router, made from
                   \* another thread: its position and its locals
    now,           \* time.Now(), in milliseconds since the program started
    dir,           \* one internal.DirectionalInput: its fields
    dobs,          \* observer of dir: what was pressed when, and what the
                   \* last calls returned
    det,           \* detailScreenState: the fields of its scrolling
    tobs,          \* observer of det: buttons down, accepted presses and
                   \* the scroll steps made
    kbd,           \* virtualKeyboard: its fields but directionalInput, which
                   \* is dir
    kobs,          \* observer of kbd: buttons down and navigation steps
    cache,         \* one internal.TextureCache, and the textures destroyed
    olist,         \* the optionsListController of one OptionsList call
    oobs,          \* observer of olist: the last moveSelection call
    smsg           \* the selectionMessageController of one SelectionMessage

routerVars == <<screens, transition, stack>>
runVars ==
    <<pc, current, currentInput, fn, result, err, next, nextInput, ret>>
appVars == <<targs, entry, visits, printed>>
obsVars == <<active, lookups, calls, tcalls, track, hist>>
detVars == <<det, tobs>>
kbVars == <<kbd, kobs>>
listVars == <<olist, oobs>>
widgetVars == <<cache, listVars, smsg>>
screenVars == <<detVars, kbVars, widgetVars>>
uiVars == <<now, dir, dobs, screenVars>>
extVars == <<peeked, other, uiVars>>
vars == <<routerVars, runVars, appVars, obsVars, extVars>>

Units == {"list", "detail", "generic"}

\* The registrations the embedding application makes: the example's screens
\* under their own identifiers, a generic screen under any identifier.
Registrations ==
    {<<ScreenGameList, "list">>, <<ScreenGameDetail, "detail">>}
        \cup {<<s, "generic">> : s \in Screens}
Transitions == {"example", "generic"}

NoArgs == [from |-> ScreenExit, result |-> NilP]
TrackNone == [st |-> "none"]

\* The second Run before it is called.  seen is the value of s.entries its
\* running stack operation has read, loaded tells whether one is running, and
\* pushed whether its transition calls have pushed anything yet.
OtherIdle ==
    [pc |-> "idle", current |-> ScreenExit, input |-> NilP, fn |-> "nil",
     result |-> NilP, entry |-> NoEntry, ret |-> NotReturned, calls |-> 0,
     seen |-> << >>, loaded |-> FALSE, pushed |-> FALSE]

\* New (router.go) followed by nothing else: the state after construction.
Init ==
    /\ screens = << >>
    /\ transition = "nil"
    /\ stack = NewStack
    /\ pc = "idle"
    /\ current = ScreenExit
    /\ currentInput = NilP
    /\ fn = "nil"
    /\ result = NilP
    /\ err = "nil"
    /\ next = ScreenExit
    /\ nextInput = NilP
    /\ ret = NotReturned
    /\ targs = NoArgs
    /\ entry = NoEntry
    /\ visits = 0
    /\ printed = NilP
    /\ active = 0
    /\ lookups = 0
    /\ calls = 0
    /\ tcalls = 0
    /\ track = TrackNone
    /\ hist = << >>
    /\ peeked = 0
    /\ other = OtherIdle
    /\ now = 0
    /\ dir = InitialDir
    /\ dobs = NothingObserved
    /\ det = initializeDetailScreenState(0)
    /\ tobs = DetailUnobserved
    /\ kbd = createKeyboard(0)
    /\ kobs = KeyboardUnobserved
    /\ cache = NoTextureCache
    /\ olist = NoOptionsList
    /\ oobs = NothingMoved
    /\ smsg = NoSelectionMessage

\* ----------------------------------------------------------------- registry
\* Mutant: a registration under an identifier already in use is ignored.
RegisterMap_FirstWins(m, screen, unit) ==
    [s \in (DOMAIN m) \cup {screen} |->
        IF s \in DOMAIN m THEN m[s] ELSE unit]

\* router.go:54, r.screens[screen] = fn.
RegisterMap(m, screen, unit) ==
    [s \in (DOMAIN m) \cup {screen} |-> IF s = screen THEN unit ELSE m[s]]

Lookup(m, screen) ==
    IF screen \in DOMAIN m THEN [ok |-> TRUE, fn |-> m[screen]]
    ELSE [ok |-> FALSE, fn |-> "nil"]

\* Configuration and Run happen while no Run is in progress on the router.
Quiescent == pc = "idle"

Register(screen, unit) ==
    /\ Quiescent
    /\ screens' = RegisterMap(screens, screen, unit)
    /\ UNCHANGED <<extVars, transition, stack, runVars, appVars, obsVars>>

OnTransition(t) ==
    /\ Quiescent
    /\ transition' = t
    /\ UNCHANGED <<extVars, screens, stack, runVars, appVars, obsVars>>

\* ------------------------------------------------- screens of the example
\* Outcome of one Screen Unit call: kind is "ok" (result, nil), "err"
\* (nil, err) or "panic"; visits and printed are the closure's new state.
Outcome(kind, res, e, v, p) ==
    [kind |-> kind, result |-> res, err |-> e, visits |-> v, printed |-> p]

\* Example_backNavigation: the ScreenGameList closure.
ListScreen(input, v, p) ==
    IF input.type # "GameListInput" THEN Outcome("panic", NilP, "nil", v, p)
    ELSE IF v + 1 = 1
         THEN Outcome("ok", GameListResult("Selected", "Half-Life", R0), "nil",
                      v + 1, p)
    ELSE IF input.Resume = NilP THEN Outcome("panic", NilP, "nil", v + 1, p)
    ELSE Outcome("ok", GameListResult("Back", "nil", NilP), "nil", v + 1,
                 [index |-> input.Resume.SelectedIndex,
                  scroll |-> input.Resume.ScrollPosition])

\* Example_backNavigation: the ScreenGameDetail closure.
DetailScreen(input, v, p) ==
    IF input.type # "GameDetailInput" THEN Outcome("panic", NilP, "nil", v, p)
    ELSE Outcome("ok", GameDetailResult("Back"), "nil", v, p)

\* An arbitrary Screen Unit: any result with a nil error, or any error.
GenericScreen(input, v, p) ==
    {Outcome("ok", r, "nil", v, p) : r \in GenericResults}
        \cup {Outcome("err", NilP, e, v, p) : e \in ScreenErrs}

ScreenOutcomes(unit, input, v, p) ==
    IF unit = "list" THEN {ListScreen(input, v, p)}
    ELSE IF unit = "detail" THEN {DetailScreen(input, v, p)}
    ELSE GenericScreen(input, v, p)

\* ------------------------------------------------------------ the observer
\* The observer may start following a frame when a transition function
\* pushes it: it notes the arguments of the Push and the depth of the frame.
\* The frame is the one a Pop removes at that depth; a Clear discards it.
TrackOnPush(trk, screen, input, resume, newLen, choose) ==
    IF choose /\ trk.st = "none"
    THEN [st |-> "on", depth |-> newLen, screen |-> screen,
          input |-> input, R |-> resume]
    ELSE trk

TrackOnPop(trk, lenBefore) ==
    IF trk.st = "on" /\ lenBefore = trk.depth THEN [trk EXCEPT !.st = "popped"]
    ELSE IF trk.st = "popped" THEN TrackNone
    ELSE trk

TrackOnClear(trk) == IF trk.st = "on" THEN TrackNone ELSE trk

TrackOnReturn(trk, isBack, invoked) ==
    IF trk.st = "popped"
    THEN IF isBack /\ invoked THEN [trk EXCEPT !.st = "back"] ELSE TrackNone
    ELSE trk

TrackOnScreenReturn(trk) == IF trk.st = "back" THEN TrackNone ELSE trk

\* ----------------------------------------------------------------- Run loop
\* router.go:93, the exit test of the loop.
IsExit(screen) == screen = ScreenExit

\* Mutant: the ok flag of the lookup is ignored, so Run calls the nil
\* function the map yields for an unregistered identifier.
LoopHead_IgnoresOk(cur, done) ==
    LET l == Lookup(screens, cur) IN
    /\ lookups' = lookups + 1
    /\ IF ~l.ok
       THEN
         /\ pc' = "panicked"
         /\ calls' = done
         /\ UNCHANGED <<ret, fn, active>>
       ELSE
         /\ done < MaxCalls
         /\ pc' = "screen"
         /\ fn' = l.fn
         /\ active' = active + 1
         /\ calls' = done + 1
         /\ UNCHANGED ret

\* Mutant: an unregistered identifier ends Run like the exit identifier.
LoopHead_ReturnsNil(cur, done) ==
    LET l == Lookup(screens, cur) IN
    /\ lookups' = lookups + 1
    /\ IF ~l.ok
       THEN
         /\ pc' = "returned"
         /\ ret' = NoErr
         /\ calls' = done
         /\ UNCHANGED <<fn, active>>
       ELSE
         /\ done < MaxCalls
         /\ pc' = "screen"
         /\ fn' = l.fn
         /\ active' = active + 1
         /\ calls' = done + 1
         /\ UNCHANGED ret

\* Mutant: Run gives up with an error once two units have been invoked.
LoopHead_IterationLimit(cur, done) ==
    LET l == Lookup(screens, cur) IN
    /\ lookups' = lookups + 1
    /\ IF ~l.ok \/ done >= 2
       THEN
         /\ pc' = "returned"
         /\ ret' = IF ~l.ok THEN ErrNotRegistered(cur)
                   ELSE [kind |-> "iterationLimit"]
         /\ calls' = done
         /\ UNCHANGED <<fn, active>>
       ELSE
         /\ done < MaxCalls
         /\ pc' = "screen"
         /\ fn' = l.fn
         /\ active' = active + 1
         /\ calls' = done + 1
         /\ UNCHANGED ret

\* router.go:76-84, the head of the loop: look the screen up and either
\* return the configuration error or invoke the unit, which then executes
\* until ScreenReturn.  done is the number of units invoked so far.
LoopHead(cur, done) ==
    LET l == Lookup(screens, cur) IN
    /\ lookups' = lookups + 1
    /\ IF ~l.ok
       THEN
         /\ pc' = "returned"
         /\ ret' = ErrNotRegistered(cur)
         /\ calls' = done
         /\ UNCHANGED <<fn, active>>
       ELSE
         /\ done < MaxCalls
         /\ pc' = "screen"
         /\ fn' = l.fn
         /\ active' = active + 1
         /\ calls' = done + 1
         /\ UNCHANGED ret

\* Mutant: Run does not test the transition function.
TransitionUnset_Never(t) == FALSE

\* router.go:69, the configuration test of Run.
TransitionUnset(t) == t = "nil"

\* Mutant: Run treats the exit identifier as its start like the one a
\* transition returns, and reports success at once.
Run_ExitOnStart(start, input) ==
    /\ Quiescent
    /\ IF TransitionUnset(transition)
       THEN /\ pc' = "returned"
            /\ ret' = ErrNoTransition
            /\ UNCHANGED <<current, currentInput, fn, active, lookups, calls>>
       ELSE IF IsExit(start)
       THEN /\ pc' = "returned"
            /\ ret' = NoErr
            /\ UNCHANGED <<current, currentInput, fn, active, lookups, calls>>
       ELSE /\ current' = start
            /\ currentInput' = input
            /\ LoopHead(start, 0)
    /\ UNCHANGED <<extVars,
                   routerVars, appVars, result, err, next, nextInput, tcalls,
                   track, hist>>

\* router.go:68-84, the call of Run up to the first Screen Unit invocation.
Run(start, input) ==
    /\ Quiescent
    /\ IF TransitionUnset(transition)
       THEN /\ pc' = "returned"
            /\ ret' = ErrNoTransition
            /\ UNCHANGED <<current, currentInput, fn, active, lookups, calls>>
       ELSE /\ current' = start
            /\ currentInput' = input
            /\ LoopHead(start, 0)
    /\ UNCHANGED <<extVars,
                   routerVars, appVars, result, err, next, nextInput, tcalls,
                   track, hist>>

\* Mutant: the transition function is called without the screen's result.
TransitionArgs_DropsResult(cur, res) == [from |-> cur, result |-> NilP]

\* router.go:90, the arguments Run passes to the transition function.
TransitionArgs(cur, res) == [from |-> cur, result |-> res]

\* Mutant: the unit is started without waiting for it, so it is still
\* executing when Run continues.
ExecutingAsync(n) == n

\* router.go:84, fn(currentInput) is a synchronous call: Run continues only
\* when the unit has exited, so one unit fewer is executing.
ExecutingAfterReturn(n) == n - 1

\* Mutant: Run also takes a nil result for a failure of the screen.
ScreenFailed_OnNilResult(res, e) == e # "nil" \/ res = NilP

\* router.go:85, the test Run makes on what the Screen Unit returned.
ScreenFailed(res, e) == e # "nil"

\* router.go:84-90, the Screen Unit returns: a non-nil error ends Run with
\* the wrapped error, otherwise the transition function is called.
ScreenReturn ==
    /\ pc = "screen"
    /\ \E o \in ScreenOutcomes(fn, currentInput, visits, printed) :
        /\ active' = ExecutingAfterReturn(active)
        /\ err' = o.err
        /\ visits' = o.visits
        /\ printed' = o.printed
        /\ track' = TrackOnScreenReturn(track)
        /\ IF o.kind = "panic"
           THEN /\ pc' = "panicked"
                /\ UNCHANGED <<result, ret, targs, tcalls>>
           ELSE IF ScreenFailed(o.result, o.err)
           THEN /\ pc' = "returned"
                /\ result' = o.result
                /\ ret' = ErrScreen(current, o.err)
                /\ UNCHANGED <<targs, tcalls>>
           ELSE /\ pc' = "trans"
                /\ result' = o.result
                /\ targs' = TransitionArgs(current, o.result)
                /\ tcalls' = tcalls + 1
                /\ UNCHANGED ret
    /\ entry' = NoEntry
    /\ UNCHANGED <<extVars,
                   routerVars, current, currentInput, fn, next, nextInput,
                   lookups, calls, hist>>

\* ------------------------------------------------- transition functions
\* What a transition call did: kind "ok" or "panic", the returned pair, the
\* stack it leaves, the one stack operation it made and whether the returned
\* pair was built from a popped entry.
TResult(kind, nxt, in, entries, op, back) ==
    [kind |-> kind, next |-> nxt, input |-> in, entries |-> entries,
     op |-> op, back |-> back]

\* example_test.go:185, the type assertion on the popped entry's resume.
ResumeTypeOk(resume) == resume = NilP \/ resume.type = "GameListResume"

\* example_test.go:183-187, the input rebuilt from a popped entry.
MergeResume(input, resume) ==
    IF resume # NilP THEN [input EXCEPT !.Resume = resume] ELSE input

\* The resume fragment a transition function reads from a screen's result.
ResumeOf(res) == IF res.type = "GameListResult" THEN res.Resume ELSE NilP

\* Example_backNavigation: the function given to OnTransition.
ExampleTransition(from, res, entries) ==
    IF from = ScreenGameList
    THEN IF res.type # "GameListResult"
         THEN TResult("panic", ScreenExit, NilP, entries, "none", FALSE)
         ELSE IF res.Action = "Selected"
         THEN LET pushed == Push(entries, from, GameListInput(NilP), res.Resume)
              IN  IF res.Selected = "nil"
                  THEN TResult("panic", ScreenExit, NilP, pushed, "push", FALSE)
                  ELSE TResult("ok", ScreenGameDetail,
                               GameDetailInput(res.Selected), pushed, "push",
                               FALSE)
         ELSE TResult("ok", ScreenExit, NilP, entries, "none", FALSE)
    ELSE IF from = ScreenGameDetail
    THEN LET p == Pop(entries)
         IN  IF p.entry # NoEntry
             THEN IF \/ p.entry.Input.type # "GameListInput"
                     \/ ~ResumeTypeOk(p.entry.Resume)
                  THEN TResult("panic", ScreenExit, NilP, p.entries, "pop", FALSE)
                  ELSE TResult("ok", p.entry.Screen,
                               MergeResume(p.entry.Input, p.entry.Resume),
                               p.entries, "pop", TRUE)
             ELSE TResult("ok", ScreenExit, NilP, p.entries, "pop", FALSE)
    ELSE TResult("ok", ScreenExit, NilP, entries, "none", FALSE)

\* Mutant: the exit identifier ends Run only when it comes with a nil input.
AfterTransition_ExitNeedsNilInput(nxt, in) ==
    /\ next' = nxt
    /\ nextInput' = in
    /\ result' = NilP
    /\ targs' = NoArgs
    /\ IF IsExit(nxt) /\ in = NilP
       THEN /\ pc' = "returned"
            /\ ret' = NoErr
            /\ UNCHANGED <<current, currentInput, fn, active, lookups, calls>>
       ELSE /\ current' = nxt
            /\ currentInput' = in
            /\ LoopHead(nxt, calls)

\* Mutant: Run reports an exit that comes out of a screen the example's
\* transition function has no case for as an unrouted result.
AfterTransition_UnroutedError(nxt, in) ==
    /\ next' = nxt
    /\ nextInput' = in
    /\ result' = NilP
    /\ targs' = NoArgs
    /\ IF IsExit(nxt)
       THEN /\ pc' = "returned"
            /\ ret' = IF current \in {ScreenGameList, ScreenGameDetail}
                      THEN NoErr
                      ELSE [kind |-> "unrouted", screen |-> current]
            /\ UNCHANGED <<current, currentInput, fn, active, lookups, calls>>
       ELSE /\ current' = nxt
            /\ currentInput' = in
            /\ LoopHead(nxt, calls)

\* router.go:90-99 and the next loop head: Run receives (nxt, in) from the
\* transition function, returns nil on the exit identifier and otherwise
\* moves to the next screen.
AfterTransition(nxt, in) ==
    /\ next' = nxt
    /\ nextInput' = in
    /\ result' = NilP
    /\ targs' = NoArgs
    /\ IF IsExit(nxt)
       THEN /\ pc' = "returned"
            /\ ret' = NoErr
            /\ UNCHANGED <<current, currentInput, fn, active, lookups, calls>>
       ELSE /\ current' = nxt
            /\ currentInput' = in
            /\ LoopHead(nxt, calls)

Invoked(nxt) == ~IsExit(nxt) /\ Lookup(screens, nxt).ok

\* Mutant: Run pushes the frame of the screen it leaves whenever that
\* screen's result carries a resume fragment.
StackAfterIteration_AutoPush(entries, from, res) ==
    IF ResumeOf(res) # NilP
    THEN Push(entries, from, FrameInput(from), ResumeOf(res))
    ELSE entries

\* router.go:90-99: Run hands r.stack to the transition function and calls
\* none of its methods itself, so the stack the transition function leaves
\* is the stack the next iteration starts with.
StackAfterIteration(entries, from, res) == entries

Panic ==
    /\ pc' = "panicked"
    /\ UNCHANGED <<current, currentInput, fn, result, next, nextInput, ret,
                   targs, active, lookups, calls>>

\* One call of the example transition function and Run's reaction to it.
TransitionExample ==
    /\ pc = "trans"
    /\ transition = "example"
    /\ LET t == ExampleTransition(targs.from, targs.result, stack) IN
        /\ Len(t.entries) <= MaxDepth
        /\ stack' = StackAfterIteration(t.entries, targs.from, targs.result)
        /\ entry' = NoEntry
        /\ \E choose \in BOOLEAN :
            LET trk == IF t.op = "push"
                       THEN TrackOnPush(track, targs.from, GameListInput(NilP),
                                        ResumeOf(targs.result),
                                        Len(stack) + 1, choose)
                       ELSE IF t.op = "pop" THEN TrackOnPop(track, Len(stack))
                       ELSE track
            IN  IF t.kind = "panic"
                THEN Panic /\ track' = trk
                ELSE /\ AfterTransition(t.next, t.input)
                     /\ track' = TrackOnReturn(trk, t.back, Invoked(t.next))
    /\ UNCHANGED <<extVars,
                   screens, transition, err, visits, printed, tcalls, hist>>

\* A generic transition function is any sequence of stack operations
\* followed by a return; each operation is one step.
InGeneric == pc = "trans" /\ transition = "generic"

TPush ==
    /\ InGeneric
    /\ Len(stack) < MaxDepth
    /\ stack' = Push(stack, targs.from, FrameInput(targs.from),
                     ResumeOf(targs.result))
    /\ \E choose \in BOOLEAN :
        track' = TrackOnPush(track, targs.from, FrameInput(targs.from),
                             ResumeOf(targs.result), Len(stack) + 1, choose)
    /\ UNCHANGED <<extVars,
                   screens, transition, runVars, appVars, active, lookups,
                   calls, tcalls, hist>>

TPop ==
    /\ InGeneric
    /\ stack' = Pop(stack).entries
    /\ entry' = Pop(stack).entry
    /\ track' = TrackOnPop(track, Len(stack))
    /\ UNCHANGED <<extVars,
                   screens, transition, runVars, targs, visits, printed,
                   active, lookups, calls, tcalls, hist>>

TClear ==
    /\ InGeneric
    /\ stack' = Clear(stack)
    /\ track' = TrackOnClear(track)
    /\ UNCHANGED <<extVars,
                   screens, transition, runVars, appVars, active, lookups,
                   calls, tcalls, hist>>

\* The generic function returns a pair of its own choice.
TReturn(nxt, in) ==
    /\ InGeneric
    /\ AfterTransition(nxt, in)
    /\ entry' = NoEntry
    /\ track' = TrackOnReturn(track, FALSE, Invoked(nxt))
    /\ stack' = StackAfterIteration(stack, targs.from, targs.result)
    /\ UNCHANGED <<extVars,
                   screens, transition, err, visits, printed, tcalls, hist>>

\* The generic function returns to the popped entry, rebuilding its input as
\* the example does.
TReturnBack ==
    /\ InGeneric
    /\ entry # NoEntry
    /\ entry' = NoEntry
    /\ IF entry.Input.type # "GameListInput" \/ ~ResumeTypeOk(entry.Resume)
       THEN Panic /\ track' = TrackOnReturn(track, FALSE, FALSE)
       ELSE /\ AfterTransition(entry.Screen,
                               MergeResume(entry.Input, entry.Resume))
            /\ track' = TrackOnReturn(track, TRUE, Invoked(entry.Screen))
    /\ stack' = StackAfterIteration(stack, targs.from, targs.result)
    /\ UNCHANGED <<extVars,
                   screens, transition, err, visits, printed, tcalls, hist>>

\* README.md:229-231: the function returns the popped entry's Screen and
\* Input as they are, without reading its Resume.
TReturnEntry ==
    /\ InGeneric
    /\ entry # NoEntry
    /\ entry' = NoEntry
    /\ AfterTransition(entry.Screen, entry.Input)
    /\ track' = TrackOnReturn(track, FALSE, Invoked(entry.Screen))
    /\ stack' = StackAfterIteration(stack, targs.from, targs.result)
    /\ UNCHANGED <<extVars,
                   screens, transition, err, visits, printed, tcalls, hist>>

\* The application uses Stack() to push a frame before Run is called.
StackPush(screen, input, resume) ==
    /\ Quiescent
    /\ IsEmpty(stack)
    /\ stack' = Push(stack, screen, input, resume)
    /\ UNCHANGED <<extVars, screens, transition, runVars, appVars, obsVars>>

Next ==
    \/ StackPush(ScreenGameList, GameListInput(NilP), R1)
    \/ \E r \in Registrations : Register(r[1], r[2])
    \/ \E t \in Transitions : OnTransition(t)
    \/ \E s \in Screens, i \in StartInputs : Run(s, i)
    \/ ScreenReturn
    \/ TransitionExample
    \/ TPush
    \/ TPop
    \/ TClear
    \/ \E s \in Screens, i \in ForwardInputs : TReturn(s, i)
    \/ TReturnBack
    \/ TReturnEntry

Spec == Init /\ [][Next]_vars

\* ------------------------------------------- the stack used on its own
\* The application calls Push, Pop and Clear on the stack returned by
\* Stack(), with no Run in progress; hist records each call with its
\* arguments or its returned entry.
StackTriples ==
    {<<ScreenGameList, GameListInput(NilP), R0>>,
     <<ScreenGameDetail, GameDetailInput("Half-Life"), NilP>>,
     <<ScreenGameList, GameListInput(NilP), R1>>}

Call(op, screen, input, resume, e) ==
    [op |-> op, screen |-> screen, input |-> input, resume |-> resume,
     entry |-> e]

\* part_002:29 and 53: the pointer Peek returned refers to a slot of the
\* slice's backing array.  Pop and Clear reslice and keep the array.  A Push
\* made while the stack is shorter than that slot fits into the array, so
\* the pointer keeps referring to the stack's slot; a Push made at any other
\* length may move the entries to a new array, and the pointer is followed
\* no further.
PointerAfterPush(ptr, len) == IF ptr > len THEN ptr ELSE 0

SPush(screen, input, resume) ==
    /\ Quiescent
    /\ Len(hist) < MaxOps
    /\ stack' = Push(stack, screen, input, resume)
    /\ hist' = Append(hist, Call("push", screen, input, resume, NoEntry))
    /\ peeked' = PointerAfterPush(peeked, Len(stack))
    /\ UNCHANGED <<screens, transition, runVars, appVars, active, lookups,
                   calls, tcalls, track, other,
                   uiVars>>

SPop ==
    /\ Quiescent
    /\ Len(hist) < MaxOps
    /\ stack' = Pop(stack).entries
    /\ entry' = Pop(stack).entry
    /\ hist' = Append(hist, Call("pop", ScreenExit, NilP, NilP, entry'))
    /\ UNCHANGED <<extVars,
                   screens, transition, runVars, targs, visits, printed,
                   active, lookups, calls, tcalls, track>>

SClear ==
    /\ Quiescent
    /\ Len(hist) < MaxOps
    /\ stack' = Clear(stack)
    /\ hist' = Append(hist, Call("clear", ScreenExit, NilP, NilP, NoEntry))
    /\ UNCHANGED <<extVars,
                   screens, transition, runVars, appVars, active, lookups,
                   calls, tcalls, track>>

StackNext ==
    \/ \E t \in StackTriples : SPush(t[1], t[2], t[3])
    \/ SPop
    \/ SClear

StackSpec == Init /\ [][StackNext]_vars

\* ------------------------------------------------- two Runs on one Router
\* The application registers the detail screen of the example under both
\* identifiers, installs a generic transition function and then calls Run
\* from two threads.  The second call goes through the same code as the
\* first (router.go:68-101), with its locals in the record other; the
\* registry, the transition function and the stack are the Router's, shared
\* by both.  Steps of the two calls interleave.  Push and Pop are not atomic
\* either: each reads s.entries and later assigns it (part_002:29, 42-43),
\* and with nothing ordering the two threads the assignment of the second
\* call can overwrite what the first call did in between.

\* Mutant: Run holds a lock of the Router from entry to return.
MayEnter_Mutex(busy) == ~busy

\* router.go:37-41 and 68: the Router has no lock and Run takes none, so a
\* call proceeds whether or not another Run is in progress on the Router.
MayEnter(busy) == TRUE

Running == pc \in {"screen", "trans"}

CRegister(screen) ==
    /\ other.pc = "idle"
    /\ Register(screen, "detail")

COnTransition ==
    /\ other.pc = "idle"
    /\ OnTransition("generic")

\* router.go:76-84 for the second call.
OLoopHead(o, cur, in) ==
    LET l == Lookup(screens, cur) IN
    IF ~l.ok
    THEN [o EXCEPT !.pc = "returned", !.current = cur, !.input = in,
                   !.ret = ErrNotRegistered(cur)]
    ELSE [o EXCEPT !.pc = "screen", !.current = cur, !.input = in,
                   !.fn = l.fn, !.calls = @ + 1]

OEnter(o) ==
    /\ other' = o
    /\ o.pc = "screen" => other.calls < MaxOther
    /\ active' = IF o.pc = "screen" THEN active + 1 ELSE active

ORun(start, input) ==
    /\ other.pc = "idle"
    /\ MayEnter(Running)
    /\ IF TransitionUnset(transition)
       THEN OEnter([other EXCEPT !.pc = "returned", !.ret = ErrNoTransition])
       ELSE OEnter(OLoopHead(other, start, input))
    /\ UNCHANGED <<routerVars, runVars, appVars, lookups, calls, tcalls,
                   track, hist, peeked,
                   uiVars>>

\* router.go:84-90 for the second call.
OScreenReturn ==
    /\ other.pc = "screen"
    /\ \E o \in ScreenOutcomes(other.fn, other.input, visits, printed) :
        other' = IF ScreenFailed(o.result, o.err)
                 THEN [other EXCEPT !.pc = "returned",
                                    !.ret = ErrScreen(other.current, o.err)]
                 ELSE [other EXCEPT !.pc = "trans", !.result = o.result,
                                    !.entry = NoEntry]
    /\ active' = ExecutingAfterReturn(active)
    /\ UNCHANGED <<routerVars, runVars, appVars, lookups, calls, tcalls,
                   track, hist, peeked,
                   uiVars>>

\* A stack operation of the second Run's transition call reads s.entries.
OLoad ==
    /\ other.pc = "trans"
    /\ ~other.loaded
    /\ other' = [other EXCEPT !.seen = stack, !.loaded = TRUE]
    /\ UNCHANGED <<routerVars, runVars, appVars, active, lookups, calls,
                   tcalls, track, hist, peeked,
                   uiVars>>

\* Push of the second Run's transition call, on what it read: the frame of
\* its screen is appended and the result assigned to s.entries.
OPush ==
    /\ other.pc = "trans"
    /\ other.loaded
    /\ Len(other.seen) < MaxDepth
    /\ stack' = Push(other.seen, other.current, FrameInput(other.current),
                     ResumeOf(other.result))
    /\ other' = [other EXCEPT !.loaded = FALSE, !.seen = << >>,
                              !.pushed = TRUE]
    /\ UNCHANGED <<screens, transition, runVars, appVars, active, lookups,
                   calls, tcalls, track, hist, peeked,
                   uiVars>>

\* Pop of the second Run's transition call, on what it read; an empty slice
\* is returned from without an assignment (part_002:39-41).
OPop ==
    /\ other.pc = "trans"
    /\ other.loaded
    /\ stack' = IF IsEmpty(other.seen) THEN stack ELSE Pop(other.seen).entries
    /\ other' = [other EXCEPT !.loaded = FALSE, !.seen = << >>,
                              !.entry = Pop(other.seen).entry]
    /\ UNCHANGED <<screens, transition, runVars, appVars, active, lookups,
                   calls, tcalls, track, hist, peeked,
                   uiVars>>

\* router.go:90-99 for the second call.
OReturn(nxt, in) ==
    /\ other.pc = "trans"
    /\ ~other.loaded
    /\ IF IsExit(nxt)
       THEN OEnter([other EXCEPT !.pc = "returned", !.ret = NoErr])
       ELSE OEnter(OLoopHead(other, nxt, in))
    /\ UNCHANGED <<routerVars, runVars, appVars, lookups, calls, tcalls,
                   track, hist, peeked,
                   uiVars>>

\* What the runs are started with, and where the generic transition
\* function sends them.
ConcInput == GameDetailInput("Half-Life")
ConcTargets == {ScreenGameList, ScreenGameDetail, ScreenExit}

ConcNext ==
    \/ \E s \in {ScreenGameList, ScreenGameDetail} : CRegister(s)
    \/ COnTransition
    \/ Run(ScreenGameDetail, ConcInput)
    \/ ScreenReturn
    \/ TPush
    \/ TPop
    \/ \E s \in ConcTargets : TReturn(s, ConcInput)
    \/ ORun(ScreenGameDetail, ConcInput)
    \/ OScreenReturn
    \/ OLoad
    \/ OPush
    \/ OPop
    \/ \E s \in ConcTargets : OReturn(s, ConcInput)

ConcSpec == Init /\ [][ConcNext]_vars

\* --------------------------------------- the stack with Peek and its pointer
\* The caller also calls Peek and writes the Resume field of the entries it
\* holds pointers to: the one Peek returned and the one Pop returned.
WrittenResume == GameListResume(1, 50)

\* part_002:49-54: Peek returns &s.entries[len-1], nil on an empty stack.
SPeek ==
    /\ Quiescent
    /\ Len(hist) < MaxOps
    /\ peeked' = Len(stack)
    /\ hist' = Append(hist, Call("peek", ScreenExit, NilP, NilP, Peek(stack)))
    /\ UNCHANGED <<routerVars, runVars, appVars, active, lookups, calls,
                   tcalls, track, other,
                   uiVars>>

\* p := s.Peek(); p.Resume = r: the pointer refers to the slice element, so
\* the write lands in the stack's entry while the slot is in use.
SWritePeeked(r) ==
    /\ Quiescent
    /\ Len(hist) < MaxOps
    /\ peeked \in 1..Len(stack)
    /\ stack' = [stack EXCEPT ![peeked].Resume = r]
    /\ hist' = Append(hist, Call("write", ScreenExit, NilP, r, NoEntry))
    /\ UNCHANGED <<screens, transition, runVars, appVars, active, lookups,
                   calls, tcalls, track, extVars>>

\* e := s.Pop(); e.Resume = r: Pop returned the address of a copy
\* (part_002:42-44), so the write stays with the caller.
SWritePopped(r) ==
    /\ Quiescent
    /\ Len(hist) < MaxOps
    /\ entry # NoEntry
    /\ entry' = [entry EXCEPT !.Resume = r]
    /\ hist' = Append(hist, Call("write", ScreenExit, NilP, r, NoEntry))
    /\ UNCHANGED <<routerVars, runVars, targs, visits, printed, active,
                   lookups, calls, tcalls, track, extVars>>

PeekNext ==
    \/ StackNext
    \/ SPeek
    \/ SWritePeeked(WrittenResume)
    \/ SWritePopped(WrittenResume)

PeekSpec == Init /\ [][PeekNext]_vars
\* ------------------------------------------------- Run called repeatedly
\* One Router whose Run is called again after it has returned.  hist records,
\* for each call that returned, its value and the stack it left.
MaxRuns == 2

\* Mutant: Run empties the stack before it returns.
StackAfterRun_Cleared(entries) == Clear(entries)

\* router.go:68-101: none of Run's return statements touches r.stack, and
\* the next call works on the same Router (router.go:105-107 hands out the
\* same r.stack).
StackAfterRun(entries) == entries

RunRecord(r, entries) == [op |-> "run", ret |-> r, left |-> entries]

\* Run has returned to its caller; its locals are gone and the Router is
\* ready for the next call.
RunReturns ==
    /\ pc = "returned"
    /\ Len(hist) < MaxRuns - 1
    /\ hist' = Append(hist, RunRecord(ret, stack))
    /\ stack' = StackAfterRun(stack)
    /\ pc' = "idle"
    /\ current' = ScreenExit
    /\ currentInput' = NilP
    /\ fn' = "nil"
    /\ result' = NilP
    /\ err' = "nil"
    /\ next' = ScreenExit
    /\ nextInput' = NilP
    /\ ret' = NotReturned
    /\ targs' = NoArgs
    /\ entry' = NoEntry
    /\ active' = 0
    /\ lookups' = 0
    /\ calls' = 0
    /\ tcalls' = 0
    /\ UNCHANGED <<screens, transition, visits, printed, track, extVars>>

\* The transition function returns the exit identifier, or an identifier
\* nothing is registered under, which ends Run with an error.
RerunNext ==
    \/ Register(ScreenGameDetail, "generic")
    \/ OnTransition("generic")
    \/ StackPush(ScreenGameList, GameListInput(NilP), R1)
    \/ Run(ScreenGameDetail, ConcInput)
    \/ ScreenReturn
    \/ TPush
    \/ TPop
    \/ \E s \in {ScreenGameList, ScreenExit} : TReturn(s, ConcInput)
    \/ RunReturns

RerunSpec == Init /\ [][RerunNext]_vars

\* ---------------------------------------------- DirectionalInput, directly
\* The handler driven by a caller of its own: SetHeld and Update at any
\* times, the clock moving between the calls.
\* Time passes.
Elapse ==
    /\ now < MaxTicks * Tick
    /\ now' = now + Tick
    /\ UNCHANGED <<routerVars, runVars, appVars, obsVars, peeked, other, dir,
                   dobs, screenVars>>

\* d.SetHeld(button, held).
DSetHeld(button, held) ==
    LET r == SetHeld(dir, button, held)
    IN  /\ dir' = r.d
        /\ dobs' = ObserveSetHeld(dobs, dir, button, held, now, r.ok)
        /\ UNCHANGED <<routerVars, runVars, appVars, obsVars, peeked, other,
                       now, screenVars>>

\* d.Update().
DUpdate ==
    LET u == Update(dir, now)
    IN  /\ dir' = u.d
        /\ dobs' = ObserveUpdate(dobs, dir, now, u.dir)
        /\ UNCHANGED <<routerVars, runVars, appVars, obsVars, peeked, other,
                       now, screenVars>>

DirNext ==
    \/ Elapse
    \/ \E b \in Directional \cup {"a"}, h \in BOOLEAN : DSetHeld(b, h)
    \/ DUpdate

DirSpec == Init /\ [][DirNext]_vars

\* ------------------------------------------------- the detail screen loop
\* Events and update calls of the detail screen's loop (detail.go:387-407,
\* 567-570), with buttons pressed and released at any times.

\* A button goes down and the screen handles the event.
TPress(button) ==
    LET accepted == now - det.lastInputTime >= det.inputDelay
        downs == (tobs.phys \cup {button}) \cap {"up", "down"}
        c == [tobs EXCEPT !.phys = @ \cup {button}, !.call = "press",
                          !.at = now, !.scrolled = FALSE,
                          !.phold = tobs.hold, !.pbase = tobs.base,
                          !.prepeated = tobs.repeated]
    IN  /\ button \notin tobs.phys
        /\ det' = DetailHandleInputEvent(det, button, now)
        /\ tobs' = IF button \notin {"up", "down"} THEN c
                   ELSE IF accepted /\ downs = {button}
                   THEN [c EXCEPT !.hold = button, !.base = now,
                                  !.repeated = FALSE]
                   ELSE [c EXCEPT !.hold = "none"]
        /\ UNCHANGED <<routerVars, runVars, appVars, obsVars, peeked, other,
                       now, dir, dobs, kbVars, widgetVars>>

\* A button goes up and the screen handles the event.
TRelease(button) ==
    /\ button \in tobs.phys
    /\ det' = DetailHandleInputEventRelease(det, button)
    /\ tobs' = [tobs EXCEPT !.phys = @ \ {button}, !.call = "release",
                            !.at = now, !.scrolled = FALSE,
                            !.phold = tobs.hold, !.pbase = tobs.base,
                            !.prepeated = tobs.repeated,
                            !.hold = IF button \in {"up", "down"}
                                     THEN "none" ELSE @]
    /\ UNCHANGED <<routerVars, runVars, appVars, obsVars, peeked, other,
                   now, dir, dobs, kbVars, widgetVars>>

\* s.update(), detail.go:567-570.
TUpdate ==
    LET u == DetailHandleDirectionalRepeats(det, now)
    IN  /\ det' = u.s
        /\ tobs' = [tobs EXCEPT !.call = "update", !.at = now,
                                !.scrolled = u.scrolled,
                                !.phold = tobs.hold, !.pbase = tobs.base,
                                !.prepeated = tobs.repeated,
                                !.base = IF u.scrolled THEN now ELSE @,
                                !.repeated = IF u.scrolled THEN TRUE ELSE @]
        /\ UNCHANGED <<routerVars, runVars, appVars, obsVars, peeked, other,
                       now, dir, dobs, kbVars, widgetVars>>

DetailNext ==
    \/ Elapse
    \/ \E b \in {"up", "down", "left"} : TPress(b)
    \/ \E b \in {"up", "down", "left"} : TRelease(b)
    \/ TUpdate

DetailSpec == Init /\ [][DetailNext]_vars

\* ------------------------------------------------------ the keyboard loop
\* Keyboard (keyboard.go:714-745): the initial text, then the loop of
\* handleEvents and handleDirectionalRepeats, with buttons pressed and
\* released at any times.

\* Keyboard is called with initialText.
KOpen(initialText) ==
    /\ kbd.stage = "created"
    /\ kbd' = Keyboard(kbd, initialText)
    /\ UNCHANGED <<routerVars, runVars, appVars, obsVars, peeked, other, now,
                   dir, dobs, detVars, widgetVars, kobs>>

\* A button goes down and handleEvents passes the event to
\* handleInputEvent; key is the value of the selected key.
KPress(button, key) ==
    LET r == KbHandleInputEvent(kbd, dir, button, key, now)
        moved == <<r.k.row, r.k.col>> # <<kbd.row, kbd.col>>
    IN  /\ kbd.stage = "running"
        /\ button \notin kobs.phys
        /\ button \in {"a", "x"} =>
               Len(kbd.TextBuffer) + Len(key) <= MaxText
        /\ kbd' = r.k
        /\ dir' = r.d
        /\ kobs' = [kobs EXCEPT
                       !.phys = @ \cup {button},
                       !.downSince = IF button \in Directional /\ @ = -1
                                     THEN now ELSE @,
                       !.lastNav = IF moved THEN now ELSE @,
                       !.call = "press", !.at = now, !.navigated = moved,
                       !.plastNav = kobs.lastNav]
        /\ UNCHANGED <<routerVars, runVars, appVars, obsVars, peeked, other,
                       now, dobs, detVars, widgetVars>>

\* A button goes up and handleEvents passes the event to
\* handleInputEventRelease (keyboard.go:906-908).
KRelease(button) ==
    /\ kbd.stage = "running"
    /\ button \in kobs.phys
    /\ dir' = SetHeld(dir, button, FALSE).d
    /\ kobs' = [kobs EXCEPT
                   !.phys = @ \ {button},
                   !.downSince =
                       IF (kobs.phys \ {button}) \cap Directional = {}
                       THEN -1 ELSE @,
                   !.call = "release", !.at = now, !.navigated = FALSE,
                   !.plastNav = kobs.lastNav]
    /\ UNCHANGED <<routerVars, runVars, appVars, obsVars, peeked, other, now,
                   dobs, detVars, widgetVars, kbd>>

\* kb.handleDirectionalRepeats() of one loop iteration.
KRepeats ==
    LET r == KbHandleDirectionalRepeats(kbd, dir, now)
    IN  /\ kbd.stage = "running"
        /\ kbd' = r.k
        /\ dir' = r.d
        /\ kobs' = [kobs EXCEPT
                       !.lastNav = IF r.navigated THEN now ELSE @,
                       !.call = "repeats", !.at = now,
                       !.navigated = r.navigated,
                       !.plastNav = kobs.lastNav]
        /\ UNCHANGED <<routerVars, runVars, appVars, obsVars, peeked, other,
                       now, dobs, detVars, widgetVars>>

\* Navigation: two directions, the help toggle and a button that does
\* nothing to an empty text.
KbNext ==
    \/ Elapse
    \/ KOpen(<< >>)
    \/ \E b \in {"up", "right", "menu", "l1"} : KPress(b, << >>)
    \/ \E b \in {"up", "right", "menu", "l1"} : KRelease(b)
    \/ KRepeats

KbSpec == Init /\ [][KbNext]_vars

\* Text entry: the selected key typed with A, backspace, space and the
\* cursor moves.
KbTextNext ==
    \/ \E t \in InitialTexts : KOpen(t)
    \/ \E key \in KeyValues : KPress("a", key)
    \/ \E b \in {"b", "x", "l1", "r1"} : KPress(b, <<" ">>)
    \/ \E b \in {"a", "b", "x", "l1", "r1"} : KRelease(b)

KbTextSpec == Init /\ [][KbTextNext]_vars

\* Select, or A on the shift key (keyboard.go:867-872, 1058-1059), in a
\* layout that has shift.  hist records the toggles.
KToggleShift ==
    /\ kbd.stage = "running"
    /\ Len(hist) < MaxOps
    /\ kbd' = toggleShift(kbd)
    /\ hist' = Append(hist, [op |-> "toggleShift"])
    /\ UNCHANGED <<routerVars, runVars, appVars, active, lookups, calls,
                   tcalls, track, peeked, other, now, dir, dobs, detVars, widgetVars,
                   kobs>>

\* X in the URL layout, or A on the symbol key (keyboard.go:863-864,
\* 1060-1061).
KToggleSymbols ==
    /\ kbd.stage = "running"
    /\ Len(hist) < MaxOps
    /\ kbd' = toggleSymbols(kbd)
    /\ hist' = Append(hist, [op |-> "toggleSymbols"])
    /\ UNCHANGED <<routerVars, runVars, appVars, active, lookups, calls,
                   tcalls, track, peeked, other, now, dir, dobs, detVars, widgetVars,
                   kobs>>

KbModeNext ==
    \/ KOpen(<< >>)
    \/ KToggleShift
    \/ KToggleSymbols

KbModeSpec == Init /\ [][KbModeNext]_vars

\* ---------------------------------------------- the texture cache, directly
\* Every call on the cache is logged with the keys cached before it; each Set
\* brings a texture of its own, named by the number of the call.
CacheCall(op, key, hit) ==
    [op |-> op, key |-> key, hit |-> hit, before |-> DOMAIN cache.textures,
     texturesBefore |-> cache.textures]

CNew(n) ==
    /\ ~cache.made
    /\ cache' = NewTextureCacheWithSize(n)
    /\ UNCHANGED <<routerVars, runVars, appVars, obsVars, peeked, other, now,
                   dir, dobs, detVars, kbVars, listVars, smsg>>

CGet(key) ==
    /\ cache.made
    /\ Len(hist) < MaxCacheOps
    /\ cache' = TextureCacheGet(cache, key).c
    /\ hist' = Append(hist, CacheCall("get", key,
                                      key \in DOMAIN cache.textures))
    /\ UNCHANGED <<routerVars, runVars, appVars, active, lookups, calls,
                   tcalls, track, peeked, other, now, dir, dobs, detVars,
                   kbVars, listVars, smsg>>

CSet(key) ==
    /\ cache.made
    /\ Len(hist) < MaxCacheOps
    /\ cache' = TextureCacheSet(cache, key, Len(hist) + 1)
    /\ hist' = Append(hist, CacheCall("set", key,
                                      key \in DOMAIN cache.textures))
    /\ UNCHANGED <<routerVars, runVars, appVars, active, lookups, calls,
                   tcalls, track, peeked, other, now, dir, dobs, detVars,
                   kbVars, listVars, smsg>>

CDestroy ==
    /\ cache.made
    /\ Len(hist) < MaxCacheOps
    /\ cache' = TextureCacheDestroy(cache)
    /\ hist' = Append(hist, CacheCall("destroy", 0, FALSE))
    /\ UNCHANGED <<routerVars, runVars, appVars, active, lookups, calls,
                   tcalls, track, peeked, other, now, dir, dobs, detVars,
                   kbVars, listVars, smsg>>

CacheNext ==
    \/ \E n \in 1..MaxCacheSize : CNew(n)
    \/ \E key \in CacheKeys : CGet(key)
    \/ \E key \in CacheKeys : CSet(key)
    \/ CDestroy

CacheSpec == Init /\ [][CacheNext]_vars

\* ------------------------------------------------- the option list, directly
\* OptionsList up to its event loop: the controller is made, MaxVisibleItems
\* is computed for the window, and the initial selection and first visible
\* row of the settings are taken over when they are in range.
OOpen(items, initialSelectedIndex, visibleStartIndex, availableHeight) ==
    /\ olist.stage = "none"
    /\ LET made  == [newOptionsListController(items) EXCEPT
                       !.MaxVisibleItems =
                           calculateMaxVisibleItems(availableHeight)]
           n     == NumItems(items)
           moved == IF /\ initialSelectedIndex > 0
                       /\ initialSelectedIndex < n
                    THEN [made EXCEPT
                            !.Items = [i \in DOMAIN made.Items |->
                               [made.Items[i] EXCEPT !.Selected =
                                  IF i = initialSelectedIndex THEN TRUE
                                  ELSE IF i = made.SelectedIndex THEN FALSE
                                  ELSE @]],
                            !.SelectedIndex = initialSelectedIndex]
                    ELSE made
       IN olist' = IF visibleStartIndex >= 0 /\ visibleStartIndex < n
                   THEN [moved EXCEPT !.VisibleStartIndex = visibleStartIndex]
                   ELSE moved
    /\ UNCHANGED <<routerVars, runVars, appVars, obsVars, peeked, other, now,
                   dir, dobs, detVars, kbVars, cache, oobs, smsg>>

\* Up (direction -1) or Down (direction 1), pressed or repeated, with the
\* help overlay closed.
OMove(direction) ==
    /\ olist.stage = "running"
    /\ LET m == moveSelection(olist, direction)
       IN /\ olist' = m.o
          /\ oobs' = [moved |-> TRUE, direction |-> direction,
                      startIndex |-> olist.SelectedIndex, steps |-> m.steps]
    /\ UNCHANGED <<routerVars, runVars, appVars, obsVars, peeked, other, now,
                   dir, dobs, detVars, kbVars, cache, smsg>>

OListNext ==
    \/ \E items \in ItemLists, i \in 0..MaxItems, v \in 0..1,
          q \in 0..MaxVisible : OOpen(items, i, v, 60 * q)
    \/ \E direction \in {-1, 1} : OMove(direction)

OListSpec == Init /\ [][OListNext]_vars

\* ------------------------------------------- the selection message, directly
\* SelectionMessage up to its loop.
SOpen(options, initialSelection, disableBack) ==
    /\ smsg.stage = "none"
    /\ smsg' =
         IF Len(options) = 0
         THEN [NoSelectionMessage EXCEPT
                 !.stage = "returned", !.err = "ErrCancelled"]
         ELSE [NoSelectionMessage EXCEPT
                 !.stage = "running",
                 !.options = options,
                 !.disableBack = disableBack,
                 !.InitialSelection = initialSelection,
                 !.selectedIndex =
                     IF \/ initialSelection < 0
                        \/ initialSelection >= Len(options)
                     THEN 0 ELSE initialSelection]
    /\ UNCHANGED <<routerVars, runVars, appVars, obsVars, peeked, other, now,
                   dir, dobs, detVars, kbVars, cache, listVars>>

\* One round of the loop with one event that passes the input delay, or with
\* none: handleEvents, then render when the loop goes on, else the return.
SRound(event) ==
    /\ smsg.stage = "running"
    /\ LET c == smsg
           ends == \/ event \in {"quit", "confirm"}
                   \/ event = "back" /\ ~c.disableBack
           handled ==
               CASE event = "quit" -> [c EXCEPT !.cancelled = TRUE]
                 [] event = "left" -> navigateLeft(c)
                 [] event = "right" -> navigateRight(c)
                 [] event = "confirm" -> [c EXCEPT !.confirmed = TRUE]
                 [] event = "back" ->
                        IF c.disableBack THEN c
                        ELSE [c EXCEPT !.cancelled = TRUE]
                 [] OTHER -> c
       IN smsg' = IF ends THEN SelectionReturn(handled)
                  ELSE [handled EXCEPT !.rendered = TRUE]
    /\ UNCHANGED <<routerVars, runVars, appVars, obsVars, peeked, other, now,
                   dir, dobs, detVars, kbVars, cache, listVars>>

SMsgNext ==
    \/ \E options \in OptionLists, i \in (-1)..MaxOptions, b \in BOOLEAN :
          SOpen(options, i, b)
    \/ \E event \in {"none", "quit", "left", "right", "confirm", "back"} :
          SRound(event)

SMsgSpec == Init /\ [][SMsgNext]_vars

\* ------------------------------------- the registry with its calls recorded
\* The application registers units, possibly several under one identifier,
\* installs a transition function and calls Run; hist records each Register
\* call with its arguments.
RegCall(screen, unit) == [op |-> "register", screen |-> screen, unit |-> unit]

RRegister(screen, unit) ==
    /\ Quiescent
    /\ Len(hist) < MaxRegs
    /\ screens' = RegisterMap(screens, screen, unit)
    /\ hist' = Append(hist, RegCall(screen, unit))
    /\ UNCHANGED <<extVars,
                   transition, stack, runVars, appVars, active, lookups,
                   calls, tcalls, track>>

RegistryNext ==
    \/ \E r \in Registrations : RRegister(r[1], r[2])
    \/ \E t \in Transitions : OnTransition(t)
    \/ \E s \in Screens, i \in StartInputs : Run(s, i)
    \/ ScreenReturn
    \/ TransitionExample
    \/ \E s \in Screens, i \in ForwardInputs : TReturn(s, i)

RegistrySpec == Init /\ [][RegistryNext]_vars

\* ------------------------------------------------------------------ claims

\* C1 (exit termination): in the step in which the transition function
\* returns the exit identifier, Run returns nil without a further lookup,
\* Screen Unit or transition call, whatever nextInput came with it; nextInput
\* is not moved into currentInput; and once Run has returned nothing more is
\* invoked.
C1_ExitTermination ==
    [][/\ (pc = "trans" /\ pc' \notin {"trans", "panicked"}
            /\ next' = ScreenExit)
          => /\ pc' = "returned"
             /\ ret' = NoErr
             /\ current' = current
             /\ currentInput' = currentInput
             /\ fn' = fn
             /\ active' = 0
             /\ lookups' = lookups
             /\ calls' = calls
             /\ tcalls' = tcalls
       /\ pc = "returned" => UNCHANGED <<pc, ret, active, calls, tcalls>>
      ]_vars

\* Run has returned nil after a transition call returned the exit identifier
\* together with a non-nil input.
C1_Witness ==
    /\ pc = "returned"
    /\ ret = NoErr
    /\ next = ScreenExit
    /\ nextInput # NilP
    /\ tcalls >= 1

\* C2 (single flight): the counter of executing Screen Units never exceeds
\* 1; it is 1 exactly while Run is blocked in a unit, so a unit is started
\* only when none is executing.
C2_SingleFlight ==
    /\ active \in {0, 1}
    /\ pc = "screen" => active = 1
    /\ pc # "screen" => active = 0

\* A second Screen Unit is executing, the first one having returned.
C2_Witness == pc = "screen" /\ calls >= 2 /\ active = 1

\* C4 (resume round trip): when a transition function pushed (screen, input,
\* R) with R the resume of the screen that just ran, and that frame was
\* later popped and the next input built from it, the frame came back from
\* the stack unaltered and the Screen Unit then invoked is that screen with
\* exactly the built input, whose resume is R.
C4_ResumeRoundTrip ==
    /\ (track.st = "popped" /\ pc = "trans") =>
          entry = StackEntry(track.screen, track.input, track.R)
    /\ track.st = "back" =>
          /\ pc = "screen"
          /\ current = track.screen
          /\ fn = screens[track.screen]
          /\ currentInput = MergeResume(track.input, track.R)
          /\ currentInput.Resume = track.R

\* A screen is being resumed with a non-nil R from a frame that was pushed
\* on top of another frame, which is still on the stack.
C4_Witness ==
    /\ track.st = "back"
    /\ track.R # NilP
    /\ track.depth = 2
    /\ Len(stack) = 1
    /\ calls = MaxCalls

\* The application of Example_backNavigation: List and Detail registered,
\* the example's transition function installed.
ExampleApp ==
    /\ DOMAIN screens = {ScreenGameList, ScreenGameDetail}
    /\ screens[ScreenGameList] = "list"
    /\ screens[ScreenGameDetail] = "detail"
    /\ transition = "example"

ListFrame == StackEntry(ScreenGameList, GameListInput(NilP), R0)

\* The successive positions of the scenario: List executing (visit 1), its
\* transition call, Detail executing, its transition call, List executing
\* (visit 2) with the resume of visit 1, its transition call, Run returned.
InList1 ==
    /\ ExampleApp /\ pc = "screen" /\ calls = 1 /\ tcalls = 0
    /\ current = ScreenGameList /\ fn = "list"
    /\ currentInput = GameListInput(NilP)
    /\ visits = 0 /\ stack = << >>

AfterList1 ==
    /\ ExampleApp /\ pc = "trans" /\ calls = 1 /\ tcalls = 1
    /\ targs = [from |-> ScreenGameList,
                result |-> GameListResult("Selected", "Half-Life", R0)]
    /\ visits = 1 /\ stack = << >>

InDetail ==
    /\ ExampleApp /\ pc = "screen" /\ calls = 2 /\ tcalls = 1
    /\ current = ScreenGameDetail /\ fn = "detail"
    /\ currentInput = GameDetailInput("Half-Life")
    /\ visits = 1 /\ stack = <<ListFrame>>

AfterDetail ==
    /\ ExampleApp /\ pc = "trans" /\ calls = 2 /\ tcalls = 2
    /\ targs = [from |-> ScreenGameDetail, result |-> GameDetailResult("Back")]
    /\ visits = 1 /\ stack = <<ListFrame>>

InList2 ==
    /\ ExampleApp /\ pc = "screen" /\ calls = 3 /\ tcalls = 2
    /\ current = ScreenGameList /\ fn = "list"
    /\ currentInput = GameListInput(R0)
    /\ currentInput.Resume.SelectedIndex = 2
    /\ visits = 1 /\ stack = << >>

AfterList2 ==
    /\ ExampleApp /\ pc = "trans" /\ calls = 3 /\ tcalls = 3
    /\ targs = [from |-> ScreenGameList,
                result |-> GameListResult("Back", "nil", NilP)]
    /\ printed = [index |-> 2, scroll |-> 100]
    /\ visits = 2 /\ stack = << >>

ScenarioDone ==
    /\ ExampleApp /\ pc = "returned" /\ ret = NoErr
    /\ calls = 3 /\ tcalls = 3 /\ active = 0
    /\ printed = [index |-> 2, scroll |-> 100]
    /\ visits = 2 /\ stack = << >>

\* C5 (List/Detail scenario): Run(List, input) on the example application
\* with an empty stack invokes List, Detail, List in that order and nothing
\* else, the second List visit receives the resume of the first (index 2),
\* and Run then returns nil with the stack empty.
C5_ListDetailScenario ==
    [][/\ (ExampleApp /\ IsEmpty(stack) /\ visits = 0
            /\ Run(ScreenGameList, GameListInput(NilP))) => InList1'
       /\ InList1 => AfterList1'
       /\ AfterList1 => InDetail'
       /\ InDetail => AfterDetail'
       /\ AfterDetail => InList2'
       /\ InList2 => AfterList2'
       /\ AfterList2 => ScenarioDone'
       /\ ScenarioDone => UNCHANGED <<pc, ret, calls, tcalls, stack>>
      ]_vars

\* The scenario has run to its end.
C5_Witness == ScenarioDone

\* C6 (unregistered start): Run(start, input) with a transition function set
\* and nothing registered for start returns the configuration error naming
\* start after its one lookup, invokes no Screen Unit and no transition
\* function, and leaves the stack and the screens' state unchanged.
C6_UnregisteredStart ==
    [][\A s \in Screens, i \in StartInputs :
         (transition # "nil" /\ s \notin DOMAIN screens /\ Run(s, i))
           => /\ pc' = "returned"
              /\ ret' = [kind |-> "notRegistered", screen |-> s]
              /\ calls' = 0
              /\ tcalls' = 0
              /\ active' = 0
              /\ lookups' = 1
              /\ stack' = stack
              /\ visits' = visits
      ]_vars

\* Run has failed on its start screen with a transition function set, other
\* screens registered and a frame on the stack.
C6_Witness ==
    /\ pc = "returned"
    /\ ret.kind = "notRegistered"
    /\ ret.screen = current
    /\ calls = 0
    /\ transition # "nil"
    /\ screens # << >>
    /\ stack # << >>

\* C7 (missing transition function): Run with no transition function set
\* returns the configuration error without a lookup and without invoking a
\* Screen Unit, whether or not the start screen is registered, and leaves the
\* stack unchanged.
C7_MissingTransition ==
    [][\A s \in Screens, i \in StartInputs :
         (transition = "nil" /\ Run(s, i))
           => /\ pc' = "returned"
              /\ ret' = [kind |-> "noTransition"]
              /\ lookups' = 0
              /\ calls' = 0
              /\ tcalls' = 0
              /\ active' = 0
              /\ fn' = fn
              /\ stack' = stack
              /\ visits' = visits
      ]_vars

\* Run has failed for the missing transition function although every
\* identifier is registered, with a frame on the stack.
C7_Witness ==
    /\ pc = "returned"
    /\ ret.kind = "noTransition"
    /\ DOMAIN screens = Screens
    /\ stack # << >>

\* C8 (screen error is fatal): when the executing Screen Unit returns a
\* non-nil error, Run returns in that step an error naming the screen and
\* wrapping that same error, with no transition call, no further lookup or
\* Screen Unit, and the stack as it was while the screen ran; nothing
\* happens after Run has returned.
C8_ScreenErrorFatal ==
    [][/\ (pc = "screen" /\ err' # "nil")
          => /\ pc' = "returned"
             /\ ret'.kind = "screenError"
             /\ ret'.screen = current
             /\ ret'.wraps = err'
             /\ tcalls' = tcalls
             /\ calls' = calls
             /\ lookups' = lookups
             /\ active' = 0
             /\ stack' = stack
       /\ (pc = "returned" /\ ret.kind = "screenError")
          => UNCHANGED <<pc, ret, calls, tcalls, active, stack>>
      ]_vars

\* The second Screen Unit of a Run has failed with a frame on the stack.
C8_Witness ==
    /\ pc = "returned"
    /\ ret.kind = "screenError"
    /\ ret.wraps = err
    /\ calls = 2
    /\ tcalls = 1
    /\ stack # << >>

\* C9 (unregistered next screen): when the transition function returns an
\* identifier that is neither the exit identifier nor registered, Run
\* returns in that step the configuration error naming it, after exactly one
\* lookup and with no further Screen Unit or transition call.
C9_UnregisteredNext ==
    [][/\ (pc = "trans" /\ pc' \notin {"trans", "panicked"}
            /\ next' # ScreenExit /\ next' \notin DOMAIN screens)
          => /\ pc' = "returned"
             /\ ret' = [kind |-> "notRegistered", screen |-> next']
             /\ lookups' = lookups + 1
             /\ calls' = calls
             /\ tcalls' = tcalls
             /\ active' = 0
       /\ (pc = "returned" /\ ret.kind = "notRegistered")
          => UNCHANGED <<pc, ret, lookups, calls, tcalls, active>>
      ]_vars

\* Run has failed on a screen chosen by the second transition call.
C9_Witness ==
    /\ pc = "returned"
    /\ ret.kind = "notRegistered"
    /\ ret.screen = next
    /\ next # ScreenExit
    /\ tcalls = 2
    /\ calls = 2

\* C10 (routing step): a Screen Unit that returns a nil error is followed by
\* one transition call, which receives the identifier of that screen and a
\* result the unit returned on its input, and which works on the router's
\* stack; the stack operations of the call belong to that one call; when the
\* call returns a registered identifier other than the exit identifier, the
\* unit registered for it is invoked next with exactly the returned input.
C10_RoutingStep ==
    [][/\ (pc = "screen" /\ err' = "nil" /\ pc' # "panicked")
          => pc' = "trans"
       /\ (pc = "screen" /\ pc' = "trans")
          => /\ tcalls' = tcalls + 1
             /\ tcalls' = calls'
             /\ calls' = calls
             /\ targs'.from = current
             /\ targs'.result = result'
             /\ \E o \in ScreenOutcomes(fn, currentInput, visits, printed) :
                   o.kind = "ok" /\ o.result = targs'.result
             /\ stack' = stack
       /\ (pc = "trans" /\ pc' = "trans")
          => UNCHANGED <<tcalls, calls, targs, current, currentInput>>
       /\ (pc = "trans" /\ transition = "example"
            /\ pc' \notin {"trans", "panicked"})
          => LET t == ExampleTransition(targs.from, targs.result, stack)
             IN  next' = t.next /\ nextInput' = t.input /\ stack' = t.entries
       /\ (pc = "trans" /\ pc' = "screen")
          => /\ next' # ScreenExit
             /\ next' \in DOMAIN screens
             /\ current' = next'
             /\ fn' = screens[next']
             /\ currentInput' = nextInput'
             /\ calls' = calls + 1
             /\ tcalls' = tcalls
             /\ active' = 1
      ]_vars

\* The third Screen Unit of a Run is executing on the non-nil input the
\* second transition call returned.
C10_Witness ==
    /\ pc = "screen"
    /\ calls = 3
    /\ tcalls = 2
    /\ current = next
    /\ currentInput = nextInput
    /\ nextInput # NilP

\* Reading of a recorded history, independent of the stack's representation.
IsPush(h, j) == h[j].op = "push"

GotEntry(h, j) == h[j].op = "pop" /\ h[j].entry # NoEntry

\* Calls a..b of h contain no Clear and as many pushes as pops that returned
\* an entry.
Balanced(h, a, b) ==
    /\ \A i \in a..b : h[i].op # "clear"
    /\ Cardinality({i \in a..b : IsPush(h, i)})
         = Cardinality({i \in a..b : GotEntry(h, i)})

\* The pushes before call k whose entry has been neither popped nor cleared:
\* everything between such a push and k is balanced.
Unpopped(h, k) == {j \in 1..(k - 1) : IsPush(h, j) /\ Balanced(h, j + 1, k - 1)}

Newest(S) == CHOOSE j \in S : \A i \in S : i <= j

SameTriple(e, c) ==
    /\ e # NoEntry
    /\ e.Screen = c.screen
    /\ e.Input = c.input
    /\ e.Resume = c.resume

\* h is n pushes followed by n pops.
PushesThenPops(h, n) ==
    /\ Len(h) = 2 * n
    /\ \A i \in 1..n : h[i].op = "push" /\ h[n + i].op = "pop"

\* C3 (stack LIFO): every Pop returns the triple of the most recent push that
\* has not been popped yet, or no entry when there is none; the stack is
\* empty exactly when no push is left unpopped; and n pushes followed by n
\* pops return the pushed triples in reverse order and leave the stack empty.
C3_StackLifo ==
    /\ \A k \in 1..Len(hist) :
          hist[k].op = "pop" =>
            IF Unpopped(hist, k) = {}
            THEN hist[k].entry = NoEntry
            ELSE SameTriple(hist[k].entry, hist[Newest(Unpopped(hist, k))])
    /\ IsEmpty(stack) <=> Unpopped(hist, Len(hist) + 1) = {}
    /\ \A n \in 1..Len(hist) :
          PushesThenPops(hist, n) =>
            /\ \A i \in 1..n : SameTriple(hist[n + i].entry, hist[n + 1 - i])
            /\ IsEmpty(stack)

\* Three pushes of three different triples have been followed by three pops.
C3_Witness ==
    /\ PushesThenPops(hist, 3)
    /\ Cardinality({<<hist[i].screen, hist[i].input, hist[i].resume>> :
                      i \in 1..3}) = 3
    /\ hist[6].entry # NoEntry

C12_AutomaticResume ==
    [][ /\ ( /\ InGeneric
             /\ pc' = "screen"
             /\ entry = NoEntry
             /\ ResumeOf(targs.result) # NilP )
            => /\ ~IsEmpty(stack')
               /\ Peek(stack').Screen = targs.from
               /\ Peek(stack').Resume = ResumeOf(targs.result)
        /\ ( /\ InGeneric
             /\ pc' = "screen"
             /\ entry # NoEntry
             /\ entry.Resume # NilP
             /\ entry.Input.type = "GameListInput"
             /\ next' = entry.Screen
             /\ nextInput' = entry.Input )
            => currentInput'.Resume = entry.Resume ]_vars

\* The unit of the most recent Register call for id in the recorded calls,
\* "nil" when there was none.
LastRegistered(h, id) ==
    LET idx == {i \in 1..Len(h) : h[i].screen = id}
    IN  IF idx = {} THEN "nil"
        ELSE h[CHOOSE i \in idx : \A j \in idx : j <= i].unit

\* C13: Register is last-write-wins.  At every moment the registry maps each
\* identifier to the unit of the most recent Register call for it and holds
\* no identifier that was never registered, so a registration under one
\* identifier leaves the others alone; every Screen Unit that Run invokes is
\* the most recently registered one for the current identifier; and Register
\* raises nothing: until Run is called no error has been returned.
C13_LastWriteWins ==
    /\ \A id \in Screens :
        IF LastRegistered(hist, id) = "nil"
        THEN id \notin DOMAIN screens
        ELSE id \in DOMAIN screens /\ screens[id] = LastRegistered(hist, id)
    /\ pc = "screen" => fn = LastRegistered(hist, current)
    /\ pc = "idle" => ret = NotReturned

\* An identifier was registered twice with different units, and Run, at its
\* second lookup, invokes the later one.
C13_Witness ==
    /\ pc = "screen"
    /\ calls = 2
    /\ \E i, j \in 1..Len(hist) :
        /\ i < j
        /\ hist[i].screen = current
        /\ hist[j].screen = current
        /\ hist[i].unit # hist[j].unit
        /\ fn = hist[j].unit

\* Call k of h is a Pop that found the stack empty.
EmptyPop(h, k) == h[k].op = "pop" /\ h[k].entry = NoEntry

\* C14 (pop on empty): a Pop made on an empty stack returns no entry, leaves
\* the stack empty and lets the caller go on (nothing is raised), however
\* many such pops come in a row; and a Push made right after such a pop is
\* returned by the Pop that follows it.
C14_PopOnEmpty ==
    [][ /\ ( /\ stack = << >>
             /\ Len(hist') = Len(hist) + 1
             /\ hist'[Len(hist')].op = "pop" )
            => /\ entry' = NoEntry
               /\ hist'[Len(hist')].entry = NoEntry
               /\ stack' = << >>
               /\ pc' = pc
        /\ \A k \in 1..(Len(hist') - 2) :
            ( /\ EmptyPop(hist', k)
              /\ hist'[k + 1].op = "push"
              /\ hist'[k + 2].op = "pop" )
            => SameTriple(hist'[k + 2].entry, hist'[k + 1]) ]_vars

\* Three pops in a row on an empty stack, then a push and the pop that
\* returns it, then one more pop on the stack that is empty again.
C14_Witness ==
    /\ Len(hist) = 6
    /\ \A k \in {1, 2, 3, 6} : EmptyPop(hist, k)
    /\ hist[4].op = "push"
    /\ SameTriple(hist[5].entry, hist[4])
    /\ stack = << >>

\* C15: entries are immutable from Push to Pop.  Every Pop that returns an
\* entry returns the triple that was passed to the Push that created it (the
\* newest push not yet popped), whatever the caller wrote in between through
\* the pointers it got from Peek and from earlier Pops.
C15_EntriesImmutable ==
    \A k \in 1..Len(hist) :
        GotEntry(hist, k)
            => SameTriple(hist[k].entry, hist[Newest(Unpopped(hist, k))])

\* C16: Peek is non-destructive.  A Peek call leaves the entries of the stack
\* and their number as they are and returns no entry exactly when the stack
\* is empty; and a Pop made right after a Peek returns the triple the Peek
\* returned.
C16_PeekNonDestructive ==
    [][ /\ ( /\ Len(hist') = Len(hist) + 1
             /\ hist'[Len(hist')].op = "peek" )
            => /\ stack' = stack
               /\ Len(stack') = Len(stack)
               /\ (hist'[Len(hist')].entry = NoEntry) <=> (stack = << >>)
        /\ \A k \in 1..(Len(hist') - 1) :
            (hist'[k].op = "peek" /\ hist'[k + 1].op = "pop")
                => hist'[k + 1].entry = hist'[k].entry ]_vars

\* Two entries are on the stack, Peek returned the newer one, and the Pop
\* after it returned the same triple and left the older entry.
C16_Witness ==
    /\ Len(hist) = 4
    /\ hist[1].op = "push" /\ hist[2].op = "push"
    /\ hist[3].op = "peek" /\ hist[4].op = "pop"
    /\ SameTriple(hist[3].entry, hist[2])
    /\ ~SameTriple(hist[3].entry, hist[1])
    /\ hist[4].entry = hist[3].entry
    /\ Len(stack) = 1

\* The example's transition function has a case for the list screen and one
\* for the detail screen; a result that comes from any other screen meets no
\* case and falls through to the final return.
Unrouted(from) == from \notin {ScreenGameList, ScreenGameDetail}

\* C17 as stated: when a screen produces a result the transition function has
\* no case for, Run returns the error "router: screen X produced unrouted
\* result" naming that screen.
C17_UnroutedError ==
    [][ (pc = "trans" /\ transition = "example" /\ Unrouted(targs.from))
            => /\ pc' = "returned"
               /\ ret'.kind = "unrouted"
               /\ ret'.screen = targs.from ]_vars

\* C17, amended: the router raises nothing of its own for an unrouted result.
\* Run does what the transition function's fall-through return says: with the
\* example's function, which falls through to (ScreenExit, nil), Run returns
\* nil in that step, invoking nothing further and leaving the stack alone;
\* and no Run ever returns an error other than the three of router.go.
C17_UnroutedExits ==
    [][ /\ (pc = "trans" /\ transition = "example" /\ Unrouted(targs.from))
            => /\ pc' = "returned"
               /\ ret' = [kind |-> "nil"]
               /\ next' = ScreenExit
               /\ calls' = calls
               /\ tcalls' = tcalls
               /\ stack' = stack
        /\ ret'.kind \in {"none", "nil", "noTransition", "notRegistered",
                          "screenError"} ]_vars

\* Run was started on an identifier the example's transition function has no
\* case for, its unit returned a result, and Run has returned nil.
C17_Witness ==
    /\ transition = "example"
    /\ pc = "returned"
    /\ ret = NoErr
    /\ Unrouted(current)
    /\ calls = 1
    /\ tcalls = 1

\* C18: Run has exactly four ways to return and no iteration limit.  A step
\* in which Run returns is one of: the transition function is unset (before
\* any lookup), the lookup of the current identifier fails, the Screen Unit
\* returned a non-nil error, or the transition function returned the exit
\* identifier.  In every other case the loop goes on: a nil error leads to
\* the transition call, and a returned identifier that is registered and is
\* not the exit identifier leads to the next Screen Unit, whatever the number
\* of units invoked so far; so while none of the four happens Run does not
\* return.
C18_FourWaysToReturn ==
    [][ /\ (pc # "returned" /\ pc' = "returned")
            => \/ /\ pc = "idle"
                  /\ transition = "nil"
                  /\ ret'.kind = "noTransition"
               \/ /\ pc \in {"idle", "trans"}
                  /\ transition # "nil"
                  /\ ret'.kind = "notRegistered"
                  /\ ret'.screen = current'
                  /\ current' \notin DOMAIN screens
               \/ /\ pc = "screen"
                  /\ err' # "nil"
                  /\ ret'.kind = "screenError"
               \/ /\ pc = "trans"
                  /\ next' = ScreenExit
                  /\ ret'.kind = "nil"
        /\ (pc = "screen" /\ err' = "nil" /\ pc' # "panicked")
            => pc' = "trans"
        /\ ( /\ pc = "trans"
             /\ pc' \notin {"trans", "panicked"}
             /\ next' # ScreenExit
             /\ next' \in DOMAIN screens )
            => /\ pc' = "screen"
               /\ current' = next'
               /\ calls' = calls + 1 ]_vars

\* With every identifier registered, Run has gone round the loop as often
\* as the model follows it and is executing a Screen Unit again.
C18_Witness ==
    /\ pc = "screen"
    /\ calls = MaxCalls
    /\ tcalls = MaxCalls - 1
    /\ DOMAIN screens = Screens
    /\ ret = NotReturned

\* C19: the router is blind to result contents.  What Run does after a
\* Screen Unit has returned is a function of the error alone: with a nil
\* error Run calls the transition function with the result as it is and
\* changes nothing else of its own, whatever the result is (nil and domain
\* failures included); with a non-nil error Run returns.  What Run does after
\* the transition function has returned is a function of the returned pair
\* and the registry alone.  Two runs that agree on the errors and on the
\* transition function's decisions therefore invoke the same units in the
\* same order and end alike.
C19_ResultBlind ==
    [][ /\ (pc = "screen" /\ pc' # "panicked" /\ err' = "nil")
            => /\ pc' = "trans"
               /\ targs' = [from |-> current, result |-> result']
               /\ UNCHANGED <<current, currentInput, fn, next, nextInput,
                              ret, calls, lookups, routerVars>>
        /\ (pc = "screen" /\ pc' # "panicked" /\ err' # "nil")
            => /\ pc' = "returned"
               /\ ret'.kind = "screenError"
        /\ (pc = "trans" /\ pc' \notin {"trans", "panicked"})
            => IF next' = ScreenExit
               THEN /\ pc' = "returned"
                    /\ ret' = [kind |-> "nil"]
                    /\ UNCHANGED <<current, currentInput, fn, calls, lookups>>
               ELSE /\ current' = next'
                    /\ currentInput' = nextInput'
                    /\ lookups' = lookups + 1
                    /\ IF next' \in DOMAIN screens
                       THEN /\ pc' = "screen"
                            /\ fn' = screens[next']
                            /\ calls' = calls + 1
                            /\ ret' = ret
                       ELSE /\ pc' = "returned"
                            /\ ret' = [kind |-> "notRegistered",
                                       screen |-> next']
                            /\ UNCHANGED <<fn, calls>> ]_vars

\* The second Screen Unit of a Run has returned a nil result with a nil
\* error, and Run has called the transition function with it.
C19_Witness ==
    /\ pc = "trans"
    /\ calls = 2
    /\ err = "nil"
    /\ result = NilP
    /\ targs = [from |-> current, result |-> NilP]
    /\ ret = NotReturned

\* C20: no internal synchronization.  A second Run is never made to wait: as
\* long as it has not been called it can be called, whatever the first Run is
\* doing.  The units executing are those of both runs, so there can be two,
\* and the one stack is what both runs' transition calls push to and pop
\* from.
C20_NoSynchronization ==
    /\ other.pc = "idle" => ENABLED ORun(ScreenGameDetail, ConcInput)
    /\ active = (IF pc = "screen" THEN 1 ELSE 0)
                  + (IF other.pc = "screen" THEN 1 ELSE 0)
    /\ active <= 2

\* Two Screen Units are executing at the same time, and the second Run's
\* transition call, which has pushed nothing itself, has popped an entry:
\* one the first Run pushed.
C20_Witness ==
    /\ pc = "screen"
    /\ other.pc = "screen"
    /\ active = 2
    /\ other.entry # NoEntry
    /\ ~other.pushed

\* ------------------------------------------------------------ C21 .. C30
\* C21: a direction pressed at time t while nothing else is held, and held
\* since with no other SetHeld call: every Update before t + D returns
\* DirectionNone, the first Update at or after t + D returns the first repeat,
\* and after a repeat an Update returns the next one exactly when at least I
\* has passed since that repeat.
C21_RepeatTiming ==
    (dobs.call = "update" /\ dobs.solo) =>
        LET t == dobs.since
            D == dir.repeatDelay
            I == dir.repeatInterval
        IN  /\ dobs.at < t + D => dobs.out = DirectionNone
            /\ (dobs.pfire = -1 /\ dobs.at >= t + D) =>
                   dobs.out # DirectionNone
            /\ dobs.pfire # -1 =>
                   (dobs.out # DirectionNone <=> dobs.at - dobs.pfire >= I)

\* C22: once SetHeld(b, false) has released the only held direction the
\* handler is idle at once: nothing is held, hasRepeated is false and the
\* repeat timer restarts at the release; the next Update returns
\* DirectionNone, and a press that follows the release with no Update in
\* between gets no repeat earlier than the full delay after that press.
C22_ReleaseResets ==
    /\ ReleasedOnly(dobs) =>
           /\ RawHeld(dir) = {}
           /\ ~dir.hasRepeated
           /\ dir.lastRepeatTime = dobs.at
    /\ (dobs.call = "update" /\ RawHeld(dobs.pdir) = {}) =>
           dobs.out = DirectionNone
    /\ (dobs.call = "update" /\ dobs.solo /\ dobs.afterRelease
            /\ dobs.out # DirectionNone) =>
           dobs.at >= dobs.since + dir.repeatDelay

\* C26: HeldDirection is the first held direction in the order up, down,
\* left, right, and DirectionNone exactly when none is held; an Update that
\* fires returns that direction; SetHeld with a non-directional button
\* returns false and leaves the handler as it was.
FirstHeld(d) ==
    LET held == {i \in 1..4 : d[Directions[i]]}
    IN  IF held = {} THEN DirectionNone
        ELSE Directions[CHOOSE i \in held : \A j \in held : i <= j]

C26_HeldPriority ==
    /\ HeldDirection(dir) = FirstHeld(dir)
    /\ (HeldDirection(dir) = DirectionNone) <=> (RawHeld(dir) = {})
    /\ (dobs.call = "update" /\ dobs.out # DirectionNone) =>
           dobs.out = FirstHeld(dobs.pdir)
    /\ (dobs.call = "set" /\ dobs.button \notin Directional) =>
           ~dobs.ok /\ dir = dobs.pdir

\* Witness of C26: right and left are held together with down, Update fired
\* and returned down.
C26_Witness ==
    /\ dobs.call = "update"
    /\ dobs.out = "down"
    /\ RawHeld(dir) = {"down", "left", "right"}

\* C27: a release that leaves another direction held clears hasRepeated, so
\* the next repeat comes with the first Update at least repeatDelay, not
\* repeatInterval, after the last repeat.
C27_PartialRelease ==
    /\ (dobs.call = "set" /\ ~dobs.held /\ dobs.button \in Directional) =>
           ~dir.hasRepeated
    /\ (dobs.call = "update" /\ dobs.ppartial /\ dobs.plast # -1) =>
           (dobs.out # DirectionNone
                <=> dobs.at - dobs.plast >= dir.repeatDelay)

\* Witness of C27: after a repeat one of two held directions was released;
\* an Update more than repeatInterval but less than repeatDelay after that
\* repeat returned nothing.
C27_Witness ==
    /\ dobs.call = "update"
    /\ dobs.ppartial
    /\ dobs.plast # -1
    /\ dobs.at - dobs.plast > dir.repeatInterval
    /\ dobs.at - dobs.plast < dir.repeatDelay
    /\ dobs.out = DirectionNone

\* C23: the Router has one stack for its whole life.  A step in which Run
\* starts, moves from one Screen Unit to the next, terminates or hands its
\* value to the caller leaves the stack as it is, so while a later Run has
\* not called the transition function yet the stack is the one the earlier
\* Run left, with the same entries in the same order, whatever that Run
\* returned (or that stack with the frame the application pushed through
\* Stack() between the calls).
C23_StackSurvives ==
    /\ [][(pc # pc' \/ pc = "screen") /\ ~(pc = "trans" /\ pc' = "trans")
              => stack' = stack]_vars
    /\ []((Len(hist) >= 1 /\ pc \in {"idle", "screen"} /\ tcalls = 0) =>
              \/ stack = hist[Len(hist)].left
              \/ /\ hist[Len(hist)].left = NewStack
                 /\ Len(stack) = 1)

\* Witness of C23: a Run that ended with a screen error left one entry, and
\* the transition function of the next Run has popped exactly that entry.
C23_Witness ==
    /\ Len(hist) >= 1
    /\ hist[Len(hist)].ret.kind \notin {"nil", "none"}
    /\ Len(hist[Len(hist)].left) = 1
    /\ pc = "trans"
    /\ tcalls = 1
    /\ entry = hist[Len(hist)].left[1]
    /\ stack = NewStack

\* C24: a Run call whose start is the exit identifier does not return
\* success: it looks the identifier up, returns the "not registered" error
\* when nothing is registered under it and executes the unit registered
\* under it otherwise.
C24_ExitAsStart ==
    [][(pc = "idle" /\ pc' # "idle" /\ transition # "nil"
            /\ current' = ScreenExit) =>
          /\ ret' # NoErr
          /\ lookups' = lookups + 1
          /\ IF ScreenExit \in DOMAIN screens
             THEN /\ pc' = "screen"
                  /\ fn' = screens[ScreenExit]
                  /\ calls' = 1
                  /\ ret' = NotReturned
             ELSE /\ pc' = "returned"
                  /\ ret' = ErrNotRegistered(ScreenExit)
                  /\ calls' = 0]_vars

\* Witness of C24: the unit registered under the exit identifier is
\* executing as the first unit of Run.
C24_Witness ==
    /\ pc = "screen"
    /\ current = ScreenExit
    /\ ScreenExit \in DOMAIN screens
    /\ fn = screens[ScreenExit]
    /\ calls = 1
    /\ tcalls = 0

\* Index of the last Clear in h, 0 when there is none.
LastClear(h) ==
    LET cs == {i \in 1..Len(h) : h[i].op = "clear"}
    IN  IF cs = {} THEN 0 ELSE CHOOSE i \in cs : \A j \in cs : j <= i

\* Pushes minus pops that returned an entry, since creation or the last
\* Clear.
NetPushes(h) ==
    Cardinality({i \in (LastClear(h) + 1)..Len(h) : IsPush(h, i)})
        - Cardinality({i \in (LastClear(h) + 1)..Len(h) : GotEntry(h, i)})

\* C25 (stack size accounting): Len is the number of pushes minus the number
\* of pops that returned an entry since creation or the last Clear, so every
\* Push raises it by exactly 1, whatever the depth and whatever screen is on
\* top; IsEmpty holds exactly when Len is 0; Len is 0 after Clear.
C25_SizeAccounting ==
    /\ StackLen(stack) = NetPushes(hist)
    /\ IsEmpty(stack) <=> (StackLen(stack) = 0)
    /\ IsEmpty(stack) <=> (NetPushes(hist) = 0)
    /\ (Len(hist) > 0 /\ hist[Len(hist)].op = "clear") =>
           StackLen(stack) = 0 /\ Len(stack) = 0

\* Witness of C25: MaxOps pushes of one screen identifier in a row, and a
\* stack that deep.
C25_Witness ==
    /\ Len(hist) = MaxOps
    /\ \A i \in 1..Len(hist) :
           hist[i].op = "push" /\ hist[i].screen = ScreenGameList
    /\ StackLen(stack) = MaxOps

\* C28: while Up or Down is held on the detail screen and the loop keeps
\* calling update within the direction timeout, an update makes a scroll
\* repeat exactly when repeatDelay (150 ms) has passed since the press, for
\* the first repeat, or repeatInterval (50 ms) since the previous repeat, for
\* the later ones.
C28_DetailRepeatTiming ==
    (tobs.call = "update" /\ tobs.phold # "none"
        /\ tobs.at - tobs.pbase <= DirectionTimeout) =>
       (tobs.scrolled <=>
           tobs.at - tobs.pbase >=
               (IF tobs.prepeated THEN DetailRepeatInterval
                ELSE DetailRepeatDelay))

\* C29: in the keyboard screen every directional button that is down is
\* marked held in directionalInput, whenever it was pressed and whether or
\* not the help overlay is showing, so that a handleDirectionalRepeats call
\* navigates once a directional button has been down, and nothing has
\* navigated, for the repeat delay.
C29_HeldWhileDown ==
    /\ \A b \in kobs.phys \cap Directional : dir[b]
    /\ (kobs.call = "repeats" /\ kobs.downSince # -1
            /\ kobs.at - kobs.downSince >= KeyboardRepeatDelay
            /\ kobs.at - kobs.plastNav >= KeyboardRepeatDelay) =>
           kobs.navigated

\* C30: the keyboard's cursor stays inside the text: whatever the initial
\* text and the keys typed, 0 <= CursorPosition <= number of characters of
\* TextBuffer, and no edit panics on a slice out of range.
C30_CursorInsideText ==
    /\ kbd.stage # "panicked"
    /\ kbd.CursorPosition >= 0
    /\ kbd.CursorPosition <= Len(kbd.TextBuffer)

\* ------------------------------------------------------------ C31 .. C37
\* C31 (keyboard mode): after any sequence of toggleShift and toggleSymbols
\* the keyboard is in symbols mode exactly when SymbolPressed is set, and
\* otherwise in upper case exactly when ShiftPressed is set, lower case when
\* it is not; so leaving symbols mode gives the case of the shift flag as it
\* is then.  The flags are the parities of the toggles made.
Toggles(h, op) == Cardinality({i \in 1..Len(h) : h[i].op = op})

C31_KeyboardMode ==
    /\ kbd.SymbolPressed <=> (Toggles(hist, "toggleSymbols") % 2 = 1)
    /\ kbd.ShiftPressed <=> (Toggles(hist, "toggleShift") % 2 = 1)
    /\ (kbd.CurrentState = "symbolsMode") <=> kbd.SymbolPressed
    /\ ~kbd.SymbolPressed =>
           kbd.CurrentState = (IF kbd.ShiftPressed THEN "upperCase"
                               ELSE "lowerCase")

\* Witness of C31: shift was toggled while the keyboard was in symbols mode,
\* and leaving symbols mode gave upper case.
C31_Witness ==
    /\ hist = <<[op |-> "toggleSymbols"], [op |-> "toggleShift"],
                [op |-> "toggleSymbols"]>>
    /\ kbd.CurrentState = "upperCase"
    /\ kbd.ShiftPressed

\* The call, among the first k of h, that last used key: a Set of it or a Get
\* that found it.  0 when there is none.
LastUse(h, k, key) ==
    LET uses == {i \in 1..k : /\ h[i].key = key
                              /\ \/ h[i].op = "set"
                                 \/ h[i].op = "get" /\ h[i].hit}
    IN IF uses = {} THEN 0 ELSE CHOOSE i \in uses : \A j \in uses : j <= i

LeastRecentlyUsed(h, k, keys) ==
    CHOOSE key \in keys :
        \A o \in keys : LastUse(h, k, key) <= LastUse(h, k, o)

\* The last call was a Set of a key not cached, on a full cache.
SetOnFull ==
    /\ Len(hist) > 0
    /\ hist[Len(hist)].op = "set"
    /\ ~hist[Len(hist)].hit
    /\ Cardinality(hist[Len(hist)].before) >= cache.maxSize

\* The last call was a Set of a key already cached.
SetOnCached ==
    /\ Len(hist) > 0
    /\ hist[Len(hist)].op = "set"
    /\ hist[Len(hist)].hit

\* C32: a Set that adds a new key to a full cache evicts exactly one key, the
\* one whose last use (a Get that found it, or a Set) is the oldest, destroys
\* that key's texture and keeps every other key; a Set of a key already
\* cached evicts nothing and makes that key the most recently used.
C32_LruEviction ==
    LET k == Len(hist)
        e == hist[k]
        lru == LeastRecentlyUsed(hist, k - 1, e.before)
    IN /\ SetOnFull =>
            /\ e.before \ DOMAIN cache.textures = {lru}
            /\ e.texturesBefore[lru] \in cache.destroyed
            /\ DOMAIN cache.textures = (e.before \ {lru}) \cup {e.key}
            /\ \A o \in e.before \ {lru} :
                   /\ cache.textures[o] = e.texturesBefore[o]
                   /\ cache.textures[o] \notin cache.destroyed
       /\ SetOnCached =>
            /\ DOMAIN cache.textures = e.before
            /\ cache.order[Len(cache.order)] = e.key
            /\ \A o \in e.before \ {e.key} :
                   cache.textures[o] = e.texturesBefore[o]

\* A key that is not the oldest inserted was evicted, after a Get had
\* refreshed the oldest one; and a Set has replaced a cached key's texture.
C32_Witness ==
    /\ SetOnFull
    /\ cache.maxSize = 2
    /\ \E i \in 1..(Len(hist) - 1) : hist[i].op = "get" /\ hist[i].hit
    /\ \E i \in 1..(Len(hist) - 1) : hist[i].op = "set" /\ hist[i].hit
    /\ \E key \in DOMAIN cache.textures :
           LastUse(hist, Len(hist) - 1, key) > 0
           /\ \E i \in 1..(Len(hist) - 1) :
                  /\ hist[i].op = "set" /\ ~hist[i].hit
                  /\ hist[i].key \notin DOMAIN cache.textures
                  /\ \E j \in 1..(i - 1) :
                         hist[j].op = "set" /\ hist[j].key = key

\* C33: a cache made with size n >= 1 never holds more than n textures, and
\* its order list holds exactly the cached keys, each once.
C33_CacheBound ==
    cache.made =>
        /\ Cardinality(DOMAIN cache.textures) <= cache.maxSize
        /\ {cache.order[i] : i \in 1..Len(cache.order)} = DOMAIN cache.textures
        /\ Len(cache.order) = Cardinality(DOMAIN cache.textures)

\* A cache is full after a Set on a full cache has evicted a key.
C33_Witness ==
    /\ cache.made
    /\ Cardinality(DOMAIN cache.textures) = cache.maxSize
    /\ \E i \in 1..Len(hist) :
           /\ hist[i].op = "set"
           /\ ~hist[i].hit
           /\ Cardinality(hist[i].before) >= cache.maxSize

\* C34: for a non-empty item list, after construction and after every
\* moveSelection, 0 <= SelectedIndex < len(Items) and exactly one item has
\* Item.Selected set, the one at SelectedIndex.
C34_OneSelected ==
    (olist.stage = "running" /\ NumItems(olist.Items) > 0) =>
        /\ olist.SelectedIndex \in 0..(NumItems(olist.Items) - 1)
        /\ {i \in DOMAIN olist.Items : olist.Items[i].Selected}
               = {olist.SelectedIndex}

\* A moveSelection over three items has wrapped round from the first item to
\* the last.
C34_Witness ==
    /\ olist.stage = "running"
    /\ NumItems(olist.Items) = 3
    /\ oobs.moved
    /\ oobs.direction = -1
    /\ oobs.startIndex = 0
    /\ olist.SelectedIndex = 2
    /\ olist.Items[2].Selected

\* The item k steps from start in the direction, wrapping round the ends.
StepFrom(start, direction, k, n) ==
    IF direction > 0 THEN (start + k) % n ELSE (start + (n - 1) * k) % n

\* The nearest visible item in the direction other than the start itself,
\* and the start when there is none.
NearestVisible(items, start, direction) ==
    LET n == NumItems(items)
        found == {k \in 1..(n - 1) :
                     IsVisible(items[StepFrom(start, direction, k, n)])}
    IN IF found = {} THEN start
       ELSE StepFrom(start, direction, FirstIndex(found), n)

\* C35: moveSelection puts the selection on the nearest visible item in the
\* direction asked for, wrapping round the ends and passing over invisible
\* items; its search loop runs at most len(Items) times, and with no other
\* item visible the selection ends on the index it started from.
C35_NextVisible ==
    (oobs.moved /\ NumItems(olist.Items) > 0) =>
        /\ olist.SelectedIndex =
               NearestVisible(olist.Items, oobs.startIndex, oobs.direction)
        /\ oobs.steps <= NumItems(olist.Items)
        /\ (\A i \in DOMAIN olist.Items :
               IsVisible(olist.Items[i]) => i = oobs.startIndex)
              => olist.SelectedIndex = oobs.startIndex

\* A downward move from the last of three items has wrapped round and
\* passed over the invisible first item.
C35_Witness ==
    /\ oobs.moved
    /\ NumItems(olist.Items) = 3
    /\ oobs.startIndex = 2
    /\ oobs.direction = 1
    /\ ~IsVisible(olist.Items[0])
    /\ olist.SelectedIndex = 1
    /\ oobs.steps = 2

\* C36: after every moveSelection, with every item visible and
\* MaxVisibleItems >= 1, VisibleStartIndex <= SelectedIndex <
\* VisibleStartIndex + MaxVisibleItems and 0 <= VisibleStartIndex <=
\* max(0, len(Items) - MaxVisibleItems), so that the selected item is among
\* the rows render draws.
C36_SelectedInWindow ==
    LET n == NumItems(olist.Items)
        room == n - olist.MaxVisibleItems
    IN (/\ oobs.moved
        /\ n > 0
        /\ olist.MaxVisibleItems >= 1
        /\ \A i \in DOMAIN olist.Items : IsVisible(olist.Items[i])) =>
           /\ olist.VisibleStartIndex <= olist.SelectedIndex
           /\ olist.SelectedIndex
                  < olist.VisibleStartIndex + olist.MaxVisibleItems
           /\ 0 <= olist.VisibleStartIndex
           /\ olist.VisibleStartIndex <= (IF room < 0 THEN 0 ELSE room)
           /\ olist.SelectedIndex \in RenderedRows(olist)

\* C37: for a non-empty option list, every InitialSelection (one out of range
\* is replaced by 0) and every sequence of left and right presses (which wrap
\* round and undo each other), selectedIndex stays in [0, len(options)), so a
\* confirmed result has SelectedValue = options[SelectedIndex].Value; an
\* empty option list returns ErrCancelled and nothing is shown.
C37_SelectionIndex ==
    LET n == Len(smsg.options)
    IN /\ smsg.stage # "panicked"
       /\ smsg.stage = "running" =>
            /\ smsg.selectedIndex \in 0..(n - 1)
            /\ ~smsg.rendered =>
                 smsg.selectedIndex =
                     IF smsg.InitialSelection \in 0..(n - 1)
                     THEN smsg.InitialSelection ELSE 0
            /\ navigateLeft(navigateRight(smsg)) = smsg
            /\ navigateRight(navigateLeft(smsg)) = smsg
            /\ navigateRight(smsg).selectedIndex = (smsg.selectedIndex + 1) % n
            /\ navigateLeft(smsg).selectedIndex
                   = (smsg.selectedIndex + n - 1) % n
       /\ (smsg.stage = "returned" /\ smsg.confirmed) =>
            /\ smsg.err = "nil"
            /\ smsg.result.SelectedIndex = smsg.selectedIndex
            /\ smsg.result.SelectedIndex \in 0..(n - 1)
            /\ smsg.result.SelectedValue
                   = smsg.options[smsg.result.SelectedIndex + 1]
       /\ (smsg.stage # "none" /\ n = 0) =>
            /\ smsg.stage = "returned"
            /\ smsg.err = "ErrCancelled"
            /\ smsg.result = NoSelectionResult
            /\ ~smsg.rendered

\* A message opened with InitialSelection beyond its three options was
\* confirmed after the selection had wrapped from the first option to the
\* last.
C37_Witness ==
    /\ smsg.stage = "returned"
    /\ smsg.confirmed
    /\ Len(smsg.options) = 3
    /\ smsg.InitialSelection = 3
    /\ smsg.result.SelectedIndex = 2
    /\ smsg.options = <<"a", "a", "b">>
    /\ smsg.result.SelectedValue = "b"

====
